---- MODULE Spec2Model ----
(***************************************************************************)
(* Model of the statement dispatcher (parsers/driver.py, parsers/registry, *)
(* the two grammars' can_parse / parse_file entry points), of the          *)
(* reconciler and payment filter (analyse.py) and of the two grammars'     *)
(* row, amount, date and year functions (parsers/desjardins.py, td.py).    *)
(*                                                                         *)
(* Strings that the code inspects character by character (file names, glob *)
(* patterns) are sequences of one-character strings.  A page's text is the *)
(* set of marker phrases its upper-cased text contains.  Money amounts are *)
(* integers in cents.                                                      *)
(***************************************************************************)
EXTENDS Integers, Sequences, FiniteSets, TLC

VARIABLES
    \* ---- the file system and the arguments of parse_statements ----
    dir,        \* file name -> content descriptor (the input directory)
    listing,    \* os.listdir(input_dir): the names, in an arbitrary order
    patterns,   \* the glob allow-list (empty: None or [])
    bank,       \* the forced grammar name ("" : none forced)
    \* ---- parse_statements ----
    pc,         \* "start" | "loop" | "returned" | "raised" | "idle"
    files,      \* iter_statement_files(...)
    pos,        \* number of files the for-loop has consumed
    unmatched,  \* the unmatched list
    dfs,        \* the list of per-file frames
    combined,   \* the returned ledger
    error,      \* the exception that left parse_statements (<<>>: none)
    calls,      \* trace of sniff_file / can_parse / parse_file invocations
    \* ---- reconcile_reimbursements ----
    rpc,        \* "begin" | "credits" | "done" | "idle"
    df,         \* the frame passed in: rows [idx, description, amount]
    tolerance,  \* in cents
    to_drop,    \* set of index labels
    cpos,       \* number of credits the loop has handled
    match_idx,  \* match_idx of the last credit handled (<<>>: None)
    out,        \* the returned frame
    removed,    \* the returned count
    \* ---- one call of a function under examination ----
    fpc,        \* "call" | "done" | "idle"
    arg,        \* the arguments of the call
    ret,        \* what the call returned (<<>>: None, not returned yet)
    \* ---- DesjardinsParser.parse_file ----
    ppc,        \* "year" | "rows" | "returned" | "idle"
    year,       \* the statement year (0: not determined yet)
    raw_rows,   \* the raw rows parse_page_transactions produced
    rowno,      \* number of raw rows the loop has consumed
    all_tx,     \* the rows emitted so far
    skipped,    \* the skip counter
    \* ---- write_csv ----
    wpc,        \* "open" | "write" | "replace" | "done" | "crashed" | "idle"
    disk        \* path -> content (<<>>: no such file, <<lines>> otherwise)

dvars == <<dir, listing, patterns, bank, pc, files, pos, unmatched, dfs, combined, error, calls>>
rvars == <<rpc, df, tolerance, to_drop, cpos, match_idx, out, removed>>
fvars == <<fpc, arg, ret>>
pvars == <<ppc, year, raw_rows, rowno, all_tx, skipped>>
wvars == <<wpc, disk>>
vars == <<dir, listing, patterns, bank, pc, files, pos, unmatched, dfs, combined, error, calls,
          rpc, df, tolerance, to_drop, cpos, match_idx, out, removed,
          fpc, arg, ret, ppc, year, raw_rows, rowno, all_tx, skipped, wpc, disk>>

\* ------------------------------------------------------------------ bounds
\* At most this many entries in the input directory.
MaxFiles == 2

\* At most this many rows in a ledger handed to the reconciler.
MaxLen == 4

\* ----------------------------------------------------------- generic helpers
RECURSIVE Concat(_)
Concat(ss) == IF ss = <<>> THEN <<>> ELSE Head(ss) \o Concat(Tail(ss))

Range(s) == {s[i] : i \in 1..Len(s)}

RECURSIVE Filter(_, _)
Filter(s, keep) ==
    IF s = <<>> THEN <<>>
    ELSE (IF Head(s) \in keep THEN <<Head(s)>> ELSE <<>>) \o Filter(Tail(s), keep)

\* Every order in which the elements of S can be listed.
Orderings(S) ==
    {p \in [1..Cardinality(S) -> S] : \A a \in S : \E i \in DOMAIN p : p[i] = a}

\* ------------------------------------------------------ characters, strings
\* Unicode code points of the characters that occur in names and patterns.
CodePoint(c) ==
    CASE c = "*" -> 42 [] c = "." -> 46 [] c = "?" -> 63
      [] c = "B" -> 66 [] c = "D" -> 68 [] c = "F" -> 70 [] c = "P" -> 80
      [] c = "a" -> 97 [] c = "b" -> 98 [] c = "d" -> 100 [] c = "f" -> 102
      [] c = "p" -> 112 [] c = "t" -> 116 [] c = "x" -> 120

\* str.lower() on one character.
LowerChar(c) ==
    CASE c = "B" -> "b" [] c = "D" -> "d" [] c = "F" -> "f" [] c = "P" -> "p"
      [] OTHER -> c

Lower(s) == [i \in 1..Len(s) |-> LowerChar(s[i])]

\* Python's str < str: lexicographic by code point, a proper prefix first.
RECURSIVE StrLess(_, _)
StrLess(a, b) ==
    IF b = <<>> THEN FALSE
    ELSE IF a = <<>> THEN TRUE
    ELSE IF Head(a) # Head(b) THEN CodePoint(Head(a)) < CodePoint(Head(b))
    ELSE StrLess(Tail(a), Tail(b))

EndsWith(s, suffix) ==
    /\ Len(s) >= Len(suffix)
    /\ SubSeq(s, Len(s) - Len(suffix) + 1, Len(s)) = suffix

DotPdf == <<".", "p", "d", "f">>

\* sorted(list of str)
RECURSIVE SortedList(_)
SortedList(S) ==
    IF S = {} THEN <<>>
    ELSE LET m == CHOOSE x \in S : \A y \in S \ {x} : StrLess(x, y)
         IN <<m>> \o SortedList(S \ {m})

sorted(l) == SortedList(Range(l))

\* fnmatch.fnmatch(name, pat) on POSIX (case-sensitive), for the wildcards * and ?.
RECURSIVE fnmatch(_, _)
fnmatch(name, pat) ==
    IF pat = <<>> THEN name = <<>>
    ELSE IF Head(pat) = "*"
         THEN \/ fnmatch(name, Tail(pat))
              \/ (name # <<>> /\ fnmatch(Tail(name), pat))
    ELSE /\ name # <<>>
         /\ (Head(pat) = "?" \/ Head(pat) = Head(name))
         /\ fnmatch(Tail(name), Tail(pat))

\* os.path.splitext(path)[1]: from the last dot on, unless only dots precede it.
splitext_ext(path) ==
    LET dots == {i \in 1..Len(path) : path[i] = "."}
    IN IF dots = {} THEN <<>>
       ELSE LET d == CHOOSE i \in dots : \A j \in dots : j <= i
            IN IF \A j \in 1..(d - 1) : path[j] = "." THEN <<>>
               ELSE SubSeq(path, d, Len(path))

\* ---------------------------------------------------------- the file system
Names ==
    { <<"B", ".", "P", "D", "F">>,
      <<"a", ".", "p", "d", "f">>,
      <<"b", ".", "t", "x", "t">> }

\* Marker phrases of the two grammars, as found in upper-cased page text.
DesjMarkers == {"DATE DU RELE", "DESJARDINS"}
TDMarkers == {"TORONTO-DOMINION BANK", "STATEMENT OF ACCOUNT", "BRANCHNO."}

\* A directory entry: isfile (os.path.isfile), opens (pdfplumber.open succeeds),
\* npages, text (the marker phrases on page one), body_ok (every page's text can
\* be extracted), nA / nB (the rows grammar A / B extracts from the pages).
Entry(isfile, opens, npages, text, body_ok, nA, nB) ==
    [isfile |-> isfile, opens |-> opens, npages |-> npages, text |-> text,
     body_ok |-> body_ok, nA |-> nA, nB |-> nB]

Contents ==
    { Entry(FALSE, FALSE, 0, {}, FALSE, 0, 0),                      \* a sub-directory
      Entry(TRUE, FALSE, 0, {}, FALSE, 0, 0),                       \* unreadable / not a PDF document
      Entry(TRUE, TRUE, 0, {}, TRUE, 0, 0),                         \* a PDF with no page
      Entry(TRUE, TRUE, 1, {"DESJARDINS"}, TRUE, 1, 0),             \* one marker only
      Entry(TRUE, TRUE, 2, DesjMarkers, TRUE, 2, 0),                \* a grammar A statement
      Entry(TRUE, TRUE, 1, DesjMarkers, TRUE, 0, 0),                \* a grammar A statement, no rows
      Entry(TRUE, TRUE, 1, TDMarkers, TRUE, 0, 1),                  \* a grammar B statement
      Entry(TRUE, TRUE, 1, DesjMarkers \cup TDMarkers, TRUE, 1, 1), \* both grammars' markers
      Entry(TRUE, TRUE, 2, DesjMarkers, FALSE, 1, 0) }              \* page one fine, a later page corrupt

\* The glob allow-lists tried: none, ["*.pdf"], ["a*", "?.PDF"].
PatternChoices ==
    { <<>>,
      << <<"*", ".", "p", "d", "f">> >>,
      << <<"a", "*">>, <<"?", ".", "P", "D", "F">> >> }

BankChoices == {"", "desjardins", "td", "nope"}

\* ------------------------------------------------------------------ sniffing
\* FileSniff: first_page_text is <<>> for None, <<text>> otherwise.
FileSniff(extension, first_page_text) ==
    [extension |-> extension, first_page_text |-> first_page_text]

\* pdf.pages[0].extract_text() or "" of the file at path.
FirstPageText(path) == dir[path].text

\* Mutant: the extension is not looked at before the file is opened.
sniff_file_any_extension(path) ==
    LET ext == Lower(splitext_ext(path))
    IN IF ~dir[path].opens THEN FileSniff(ext, <<>>)
       ELSE IF dir[path].npages > 0 THEN FileSniff(ext, <<FirstPageText(path)>>)
       ELSE FileSniff(ext, <<>>)

sniff_file(path) ==
    LET ext == Lower(splitext_ext(path))
    IN IF ext = DotPdf
       THEN IF ~dir[path].opens THEN FileSniff(ext, <<>>)
            ELSE IF dir[path].npages > 0 THEN FileSniff(ext, <<FirstPageText(path)>>)
            ELSE FileSniff(ext, <<>>)
       ELSE FileSniff(ext, <<>>)

\* ------------------------------------------------------------ the grammars
\* The text can_parse looks at: the sniff's, else page one read from the file;
\* <<>> when the file cannot be opened or has no page.
TextForCanParse(path, sniff) ==
    IF sniff.first_page_text # <<>> THEN sniff.first_page_text
    ELSE IF ~dir[path].opens THEN <<>>
    ELSE IF dir[path].npages = 0 THEN <<>>
    ELSE <<FirstPageText(path)>>

\* Mutant: one of grammar A's two markers is enough.
DesjardinsCanParse_either(path, sniff) ==
    IF ~EndsWith(Lower(path), DotPdf) THEN FALSE
    ELSE LET t == TextForCanParse(path, sniff)
         IN IF t = <<>> THEN FALSE
            ELSE "DATE DU RELE" \in t[1] \/ "DESJARDINS" \in t[1]

DesjardinsCanParse(path, sniff) ==
    IF ~EndsWith(Lower(path), DotPdf) THEN FALSE
    ELSE LET t == TextForCanParse(path, sniff)
         IN IF t = <<>> THEN FALSE
            ELSE "DATE DU RELE" \in t[1] /\ "DESJARDINS" \in t[1]

TDCanParse(path, sniff) ==
    IF ~EndsWith(Lower(path), DotPdf) THEN FALSE
    ELSE LET t == TextForCanParse(path, sniff)
         IN IF t = <<>> THEN FALSE
            ELSE /\ ("THETORONTO-DOMINIONBANK" \in t[1] \/ "TORONTO-DOMINION BANK" \in t[1])
                 /\ ("STATEMENT OFACCOUNT" \in t[1] \/ "STATEMENT OF ACCOUNT" \in t[1])
                 /\ "BRANCHNO." \in t[1]

can_parse(parser, path, sniff) ==
    IF parser = "desjardins" THEN DesjardinsCanParse(path, sniff)
    ELSE TDCanParse(path, sniff)

\* An exception: its type, the fixed part of its message, and the file and
\* grammar names the message interpolates.
Exc(type, msg, file, names) ==
    [type |-> type, msg |-> msg, file |-> file, names |-> names]

\* parse_file of either grammar: the rows extracted, or the RuntimeError that
\* wraps whatever opening or reading the pages raised.  A row is identified by
\* the file it came from and its place in extraction order.
ParseResult(ok, rows, exc) == [ok |-> ok, rows |-> rows, exc |-> exc]

\* Mutant: a document that cannot be read gives an empty frame.
parse_file_swallows(parser, path, sniff) ==
    IF ~dir[path].opens \/ ~dir[path].body_ok
    THEN ParseResult(TRUE, <<>>, <<>>)
    ELSE LET n == IF parser = "desjardins" THEN dir[path].nA ELSE dir[path].nB
         IN ParseResult(TRUE, [k \in 1..n |-> [file |-> path, k |-> k]], <<>>)

parse_file(parser, path, sniff) ==
    IF ~dir[path].opens \/ ~dir[path].body_ok
    THEN ParseResult(FALSE, <<>>, <<Exc("RuntimeError", "Failed to read", path, <<>>)>>)
    ELSE LET n == IF parser = "desjardins" THEN dir[path].nA ELSE dir[path].nB
         IN ParseResult(TRUE, [k \in 1..n |-> [file |-> path, k |-> k]], <<>>)

\* ------------------------------------------------------------ the registry
get_parsers == <<"desjardins", "td">>

\* get_parser_by_name: <<parser>>, or <<>> where the code raises ValueError.
get_parser_by_name(name) ==
    IF name \in Range(get_parsers) THEN <<name>> ELSE <<>>

\* ---------------------------------------------------------- the dispatcher
\* Mutant: the directory listing is filtered but not sorted.
iter_statement_files_unsorted(names, pats) ==
    Filter(names, {n \in Range(names) :
                      /\ (pats = <<>> \/ \E i \in 1..Len(pats) : fnmatch(n, pats[i]))
                      /\ dir[n].isfile})

iter_statement_files(names, pats) ==
    LET ordered == sorted(names)
        keep == {n \in Range(names) :
                    /\ (pats = <<>> \/ \E i \in 1..Len(pats) : fnmatch(n, pats[i]))
                    /\ dir[n].isfile}
    IN Filter(ordered, keep)

\* resolve_parser: tag "parser" (parser returned), "none" (None returned) or
\* "raise".  forced is <<>> for None.
Resolved(tag, parser, exc) == [tag |-> tag, parser |-> parser, exc |-> exc]

\* Mutant: several matches are resolved by registry order.
resolve_parser_by_priority(path, sniff, forced, available) ==
    IF forced # <<>>
    THEN IF ~can_parse(forced[1], path, sniff)
         THEN Resolved("raise", "",
                  <<Exc("RuntimeError", "Forced parser cannot parse file", path, forced)>>)
         ELSE Resolved("parser", forced[1], <<>>)
    ELSE LET matches == Filter(available, {p \in Range(available) : can_parse(p, path, sniff)})
         IN IF matches = <<>> THEN Resolved("none", "", <<>>)
            ELSE Resolved("parser", matches[1], <<>>)

\* Mutant: a file no grammar accepts is a hard failure.
resolve_parser_no_match_raises(path, sniff, forced, available) ==
    IF forced # <<>>
    THEN IF ~can_parse(forced[1], path, sniff)
         THEN Resolved("raise", "",
                  <<Exc("RuntimeError", "Forced parser cannot parse file", path, forced)>>)
         ELSE Resolved("parser", forced[1], <<>>)
    ELSE LET matches == Filter(available, {p \in Range(available) : can_parse(p, path, sniff)})
         IN IF matches = <<>>
            THEN Resolved("raise", "", <<Exc("RuntimeError", "No parser for file", path, <<>>)>>)
            ELSE IF Len(matches) > 1
                 THEN Resolved("raise", "",
                          <<Exc("RuntimeError", "Multiple parsers match file", path, matches)>>)
            ELSE Resolved("parser", matches[1], <<>>)

\* Mutant: a forced grammar that rejects the file falls back to detection.
resolve_parser_forced_fallback(path, sniff, forced, available) ==
    IF forced # <<>> /\ can_parse(forced[1], path, sniff)
    THEN Resolved("parser", forced[1], <<>>)
    ELSE LET matches == Filter(available, {p \in Range(available) : can_parse(p, path, sniff)})
         IN IF matches = <<>> THEN Resolved("none", "", <<>>)
            ELSE IF Len(matches) > 1
                 THEN Resolved("raise", "",
                          <<Exc("RuntimeError", "Multiple parsers match file", path, matches)>>)
            ELSE Resolved("parser", matches[1], <<>>)

\* Mutant: a forced grammar is taken without asking it.
resolve_parser_forced_unasked(path, sniff, forced, available) ==
    IF forced # <<>> THEN Resolved("parser", forced[1], <<>>)
    ELSE LET matches == Filter(available, {p \in Range(available) : can_parse(p, path, sniff)})
         IN IF matches = <<>> THEN Resolved("none", "", <<>>)
            ELSE IF Len(matches) > 1
                 THEN Resolved("raise", "",
                          <<Exc("RuntimeError", "Multiple parsers match file", path, matches)>>)
            ELSE Resolved("parser", matches[1], <<>>)

resolve_parser(path, sniff, forced, available) ==
    IF forced # <<>>
    THEN IF ~can_parse(forced[1], path, sniff)
         THEN Resolved("raise", "",
                  <<Exc("RuntimeError", "Forced parser cannot parse file", path, forced)>>)
         ELSE Resolved("parser", forced[1], <<>>)
    ELSE LET matches == Filter(available, {p \in Range(available) : can_parse(p, path, sniff)})
         IN IF matches = <<>> THEN Resolved("none", "", <<>>)
            ELSE IF Len(matches) > 1
                 THEN Resolved("raise", "",
                          <<Exc("RuntimeError", "Multiple parsers match file", path, matches)>>)
            ELSE Resolved("parser", matches[1], <<>>)

\* Mutant: every frame is tagged with the registry's first grammar.
TagRows_registry_head(rows, parser) ==
    [k \in 1..Len(rows) |-> [file |-> rows[k].file, k |-> rows[k].k, parser |-> "desjardins"]]

\* df["parser"] = parser.name
TagRows(rows, parser) ==
    [k \in 1..Len(rows) |-> [file |-> rows[k].file, k |-> rows[k].k, parser |-> parser]]

\* The can_parse calls resolve_parser makes for one file, in order.
CanParseCalls(path, forced, available) ==
    LET asked == IF forced # <<>> THEN forced ELSE available
    IN [i \in 1..Len(asked) |-> [op |-> "can_parse", parser |-> asked[i], path |-> path]]

Forced == get_parser_by_name(bank)

\* ------------------------------------------------------ parse_statements
DriverIdle ==
    /\ pc = "idle" /\ dir = <<>> /\ listing = <<>> /\ patterns = <<>> /\ bank = ""
    /\ files = <<>> /\ pos = 0 /\ unmatched = <<>> /\ dfs = <<>> /\ combined = <<>>
    /\ error = <<>> /\ calls = <<>>

ReconcileIdle ==
    /\ rpc = "idle" /\ df = <<>> /\ tolerance = 0 /\ to_drop = {} /\ cpos = 0
    /\ match_idx = <<>> /\ out = <<>> /\ removed = 0

CallIdle == fpc = "idle" /\ arg = <<>> /\ ret = <<>>

WriteIdle == wpc = "idle" /\ disk = <<>>

ParseFileIdle ==
    /\ ppc = "idle" /\ year = 0 /\ raw_rows = <<>> /\ rowno = 0 /\ all_tx = <<>>
    /\ skipped = 0

Init ==
    /\ WriteIdle
    /\ \E present \in SUBSET Names :
          /\ Cardinality(present) <= MaxFiles
          /\ dir \in [present -> Contents]
          /\ listing \in Orderings(present)
    /\ patterns \in PatternChoices
    /\ bank \in BankChoices
    /\ pc = "start"
    /\ files = <<>> /\ pos = 0 /\ unmatched = <<>> /\ dfs = <<>> /\ combined = <<>>
    /\ error = <<>> /\ calls = <<>>
    /\ ReconcileIdle /\ CallIdle /\ ParseFileIdle

\* Lines 52-57: the registry lookups and the file enumeration.
Start ==
    /\ pc = "start"
    /\ IF bank # "" /\ get_parser_by_name(bank) = <<>>
       THEN /\ pc' = "raised"
            /\ error' = <<Exc("ValueError", "Unknown parser", <<>>, <<bank>>)>>
            /\ UNCHANGED files
       ELSE /\ pc' = "loop"
            /\ files' = iter_statement_files(listing, patterns)
            /\ UNCHANGED error
    /\ UNCHANGED <<dir, listing, patterns, bank, pos, unmatched, dfs, combined, calls>>
    /\ UNCHANGED <<rvars, fvars, pvars, wvars>>

\* Lines 59-71: one iteration of the loop over files.
ProcessFile ==
    /\ pc = "loop"
    /\ pos < Len(files)
    /\ LET path == files[pos + 1]
           sniff == sniff_file(path)
           parser == resolve_parser(path, sniff, Forced, get_parsers)
           asked == <<[op |-> "sniff_file", parser |-> "", path |-> path]>>
                        \o CanParseCalls(path, Forced, get_parsers)
       IN IF parser.tag = "raise"
          THEN /\ pc' = "raised"
               /\ error' = parser.exc
               /\ calls' = calls \o asked
               /\ UNCHANGED <<pos, unmatched, dfs>>
          ELSE IF parser.tag = "none"
          THEN /\ unmatched' = Append(unmatched, path)
               /\ pos' = pos + 1
               /\ calls' = calls \o asked
               /\ UNCHANGED <<pc, error, dfs>>
          ELSE LET res == parse_file(parser.parser, path, sniff)
               IN /\ calls' = calls \o asked
                        \o <<[op |-> "parse_file", parser |-> parser.parser, path |-> path]>>
                  /\ IF res.ok
                     THEN /\ dfs' = Append(dfs, TagRows(res.rows, parser.parser))
                          /\ pos' = pos + 1
                          /\ UNCHANGED <<pc, error, unmatched>>
                     ELSE /\ pc' = "raised"
                          /\ error' = res.exc
                          /\ UNCHANGED <<pos, unmatched, dfs>>
    /\ UNCHANGED <<dir, listing, patterns, bank, files, combined>>
    /\ UNCHANGED <<rvars, fvars, pvars, wvars>>

\* Lines 73-74: concatenate and return.
Return ==
    /\ pc = "loop"
    /\ pos = Len(files)
    /\ combined' = Concat(dfs)
    /\ pc' = "returned"
    /\ UNCHANGED <<dir, listing, patterns, bank, files, pos, unmatched, dfs, error, calls>>
    /\ UNCHANGED <<rvars, fvars, pvars, wvars>>

Next == Start \/ ProcessFile \/ Return

Spec == Init /\ [][Next]_vars

\* ======================================================================
\* Properties of parse_statements
\* ======================================================================
\* What the claims speak of, read off the directory itself.
PdfNamed(n) == EndsWith(Lower(n), DotPdf)

PageOneReadable(n) == dir[n].opens /\ dir[n].npages > 0

HasAll(n, markers) == markers \subseteq dir[n].text

\* The registered grammars that accept file n.
Accepting(n) ==
    {g \in {"desjardins", "td"} :
        /\ PdfNamed(n)
        /\ PageOneReadable(n)
        /\ HasAll(n, IF g = "desjardins" THEN DesjMarkers ELSE TDMarkers)}

\* An unreadable or corrupt PDF document.
Corrupt(n) == PdfNamed(n) /\ (~dir[n].opens \/ ~dir[n].body_ok)

\* Regular files whose name matches at least one glob when globs are given.
Eligible ==
    {n \in DOMAIN dir :
        /\ dir[n].isfile
        /\ (patterns # <<>> => \E i \in 1..Len(patterns) : fnmatch(n, patterns[i]))}

\* The loop has dealt with files[k]: it went past it, or it raised on it.
Handled(k) ==
    \/ k <= pos
    \/ k = pos + 1 /\ pc = "raised" /\ error # <<>> /\ error[1].file = files[k]

RaisedAt(k) == k = pos + 1 /\ pc = "raised" /\ error # <<>> /\ error[1].file = files[k]

ParseCalls(n) == {i \in 1..Len(calls) : calls[i].op = "parse_file" /\ calls[i].path = n}

RowsOf(n) ==
    UNION {{<<i, j>> : j \in {x \in 1..Len(dfs[i]) : dfs[i][x].file = n}} : i \in 1..Len(dfs)}

Done == pc \in {"returned", "raised"}

GrammarForced == bank \in {"desjardins", "td"}

\* C1: with no grammar forced, a file that more than one grammar accepts makes
\* parse_statements raise an error naming the file and every accepting grammar;
\* the file is never parsed and no ledger is returned.
C1_MultiMatchRaises ==
    bank = "" =>
        \A k \in 1..Len(files) :
            (Handled(k) /\ Cardinality(Accepting(files[k])) > 1) =>
                /\ RaisedAt(k)
                /\ error[1].type = "RuntimeError"
                /\ error[1].msg = "Multiple parsers match file"
                /\ Range(error[1].names) = Accepting(files[k])
                /\ Len(error[1].names) = Cardinality(Accepting(files[k]))
                /\ ParseCalls(files[k]) = {}
                /\ RowsOf(files[k]) = {}
                /\ combined = <<>>

C1_Witness ==
    /\ bank = "" /\ pc = "raised" /\ pos = 1
    /\ error[1].msg = "Multiple parsers match file"

\* C2: with no grammar forced, a file no grammar accepts is appended to the
\* unmatched list, yields no rows and does not stop the batch; a directory of
\* only such files returns an empty ledger and all of them as unmatched.
C2_UnmatchedSoftFail ==
    bank = "" =>
        /\ \A k \in 1..Len(files) :
              (Handled(k) /\ Accepting(files[k]) = {}) =>
                  /\ k <= pos
                  /\ Cardinality({i \in 1..Len(unmatched) : unmatched[i] = files[k]}) = 1
                  /\ RowsOf(files[k]) = {}
                  /\ ParseCalls(files[k]) = {}
        /\ pc = "returned" => \A k \in 1..Len(files) : Handled(k)
        /\ (Done /\ \A n \in Eligible : Accepting(n) = {}) =>
              /\ pc = "returned"
              /\ combined = <<>>
              /\ unmatched = files
              /\ Range(unmatched) = Eligible

C2_Witness ==
    /\ bank = "" /\ pc = "returned"
    /\ Len(unmatched) = 1 /\ Len(combined) > 0
    /\ unmatched[1] = files[1]

\* C3: with a grammar forced by name, a file the forced grammar accepts is handed
\* to the forced grammar's parse_file and to no other; the batch fails at the
\* first file (in sorted order) the forced grammar rejects, with an error naming
\* the forced grammar and that file; no file is reported unmatched, and a batch
\* that returns has had every eligible file parsed by the forced grammar.
C3_ForcedMustAccept ==
    GrammarForced =>
        /\ unmatched = <<>>
        /\ \A i \in 1..Len(calls) : calls[i].op = "parse_file" => calls[i].parser = bank
        /\ \A k \in 1..Len(files) :
              Handled(k) =>
                  IF bank \in Accepting(files[k])
                  THEN /\ Cardinality(ParseCalls(files[k])) = 1
                       /\ RaisedAt(k) => error[1].msg = "Failed to read"
                  ELSE /\ RaisedAt(k)
                       /\ error[1].type = "RuntimeError"
                       /\ error[1].msg = "Forced parser cannot parse file"
                       /\ error[1].names = <<bank>>
                       /\ ParseCalls(files[k]) = {}
                       /\ \A j \in 1..(k - 1) :
                             bank \in Accepting(files[j]) /\ StrLess(files[j], files[k])
        /\ pc = "returned" =>
              /\ Range(files) = Eligible
              /\ \A n \in Eligible : Cardinality(ParseCalls(n)) = 1

C3_Witness ==
    /\ GrammarForced /\ pc = "raised" /\ pos = 1
    /\ error[1].msg = "Forced parser cannot parse file"
    /\ Accepting(files[2]) # {}

\* C4: a batch (no grammar forced) whose eligible files include an unreadable or
\* corrupt document never returns a ledger.
C4_CorruptNeverReturns ==
    (bank = "" /\ \E n \in Eligible : Corrupt(n)) => pc # "returned"

\* C5: on return every ledger row carries the name of the one grammar that owns
\* its source file (the forced grammar, else the only accepting one), so all the
\* rows of a file carry the same name.
C5_RowsTaggedWithOwner ==
    /\ \A i \in 1..Len(dfs) : \A j \in 1..Len(dfs[i]) :
          LET n == dfs[i][j].file
          IN /\ dfs[i][j].parser \in Accepting(n)
             /\ GrammarForced => dfs[i][j].parser = bank
             /\ ~GrammarForced => Accepting(n) = {dfs[i][j].parser}
             /\ \A m \in ParseCalls(n) : calls[m].parser = dfs[i][j].parser
    /\ pc = "returned" =>
          /\ combined = Concat(dfs)
          /\ \A a, b \in 1..Len(combined) :
                combined[a].file = combined[b].file => combined[a].parser = combined[b].parser

C5_Witness ==
    /\ pc = "returned"
    /\ \E a, b \in 1..Len(combined) :
          /\ combined[a].parser = "desjardins" /\ combined[b].parser = "td"
    /\ \E a, b \in 1..Len(combined) : a # b /\ combined[a].file = combined[b].file

\* C6: the files processed are the eligible ones in ascending name order; the
\* returned ledger holds each parsed file's rows contiguously, in extraction
\* order, the files in ascending name order; the unmatched list is ascending.
C6_SortedDeterministicOrder ==
    /\ pc # "start" /\ ~(pc = "raised" /\ error[1].type = "ValueError") =>
          /\ Range(files) = Eligible
          /\ \A a, b \in 1..Len(files) : a < b => StrLess(files[a], files[b])
    /\ \A a, b \in 1..Len(unmatched) : a < b => StrLess(unmatched[a], unmatched[b])
    /\ pc = "returned" =>
          /\ \A a, b \in 1..Len(combined) :
                a < b => \/ StrLess(combined[a].file, combined[b].file)
                         \/ /\ combined[a].file = combined[b].file
                            /\ b = a + 1 => combined[b].k = combined[a].k + 1
                            /\ combined[a].k < combined[b].k
          /\ \A n \in Eligible \ Range(unmatched) :
                LET g == IF GrammarForced THEN bank ELSE CHOOSE x \in Accepting(n) : TRUE
                    want == IF g = "desjardins" THEN dir[n].nA ELSE dir[n].nB
                IN {combined[a].k : a \in {b \in 1..Len(combined) : combined[b].file = n}} = 1..want
          /\ \A a \in 1..Len(combined) : combined[a].file \in Eligible \ Range(unmatched)

C6_Witness ==
    /\ pc = "returned" /\ patterns # <<>>
    /\ Len(files) = 2 /\ Len(combined) >= 3
    /\ listing[1] = files[2]
    /\ combined[1].file # combined[Len(combined)].file

\* ======================================================================
\* reconcile_reimbursements (analyse.py)
\* ======================================================================
\* The rows tried: [description, amount in cents].  Credits (< 0), debits (> 0)
\* and a zero row under one description, a credit and a debit under another.
RowKinds ==
    ({"STORE A"} \X {-2, -1, 0, 1, 2}) \cup ({"STORE B"} \X {-1, 1})

\* The tolerance argument, in cents.  The code compares binary floats, for which
\* a difference of exactly the tolerance can round to either side; the model
\* compares exactly.
Tolerances == {0, 1}

\* The index labels of an n-row frame.  Labels are unique and increasing (the
\* frame comes from read_csv followed by row filters); they are not the row
\* positions, since rows filtered out earlier leave gaps.
IndexLabels(n) == {[i \in 1..n |-> 2 * i + 1]}

Frames ==
    UNION {{[i \in 1..n |-> [idx |-> labels[i], description |-> body[i][1], amount |-> body[i][2]]] :
                body \in [1..n -> RowKinds], labels \in IndexLabels(n)} :
           n \in 0..MaxLen}

Abs(x) == IF x < 0 THEN -x ELSE x

RECURSIVE SelectRows(_, _)
SelectRows(frame, sign) ==
    IF frame = <<>> THEN <<>>
    ELSE (IF Head(frame).amount * sign > 0 THEN <<Head(frame)>> ELSE <<>>)
             \o SelectRows(Tail(frame), sign)

\* credits = df[df["amount"] < 0]
Credits(frame) == SelectRows(frame, -1)

\* debits = df[df["amount"] > 0]
Debits(frame) == SelectRows(frame, 1)

\* debit_groups.get(description, []): the (idx, amount) pairs of the debits with
\* that description, in frame order.
RECURSIVE debit_groups(_, _)
debit_groups(debits, description) ==
    IF debits = <<>> THEN <<>>
    ELSE (IF Head(debits).description = description
          THEN <<[idx |-> Head(debits).idx, amount |-> Head(debits).amount]>>
          ELSE <<>>) \o debit_groups(Tail(debits), description)

\* Mutant: of the unconsumed candidates within tolerance, the nearest in amount
\* is taken rather than the first.
find_match_closest(candidates, credit_amount, dropped, tol) ==
    LET ok == {i \in 1..Len(candidates) :
                  /\ candidates[i].idx \notin dropped
                  /\ Abs(candidates[i].amount + credit_amount) <= tol}
    IN IF ok = {} THEN <<>>
       ELSE LET best == CHOOSE i \in ok : \A j \in ok :
                            \/ Abs(candidates[i].amount + credit_amount)
                                   < Abs(candidates[j].amount + credit_amount)
                            \/ /\ Abs(candidates[i].amount + credit_amount)
                                      = Abs(candidates[j].amount + credit_amount)
                               /\ i <= j
            IN <<candidates[best].idx>>

\* Mutant: the tolerance test is dropped.
RECURSIVE find_match_any_amount(_, _, _, _)
find_match_any_amount(candidates, credit_amount, dropped, tol) ==
    IF candidates = <<>> THEN <<>>
    ELSE IF Head(candidates).idx \in dropped
         THEN find_match_any_amount(Tail(candidates), credit_amount, dropped, tol)
    ELSE <<Head(candidates).idx>>

\* Lines 76-82: the scan of one credit's candidates; <<>> is match_idx = None.
RECURSIVE find_match(_, _, _, _)
find_match(candidates, credit_amount, dropped, tol) ==
    IF candidates = <<>> THEN <<>>
    ELSE IF Head(candidates).idx \in dropped
         THEN find_match(Tail(candidates), credit_amount, dropped, tol)
    ELSE IF Abs(Head(candidates).amount + credit_amount) <= tol
         THEN <<Head(candidates).idx>>
    ELSE find_match(Tail(candidates), credit_amount, dropped, tol)

\* Mutant: an unmatched credit stays in the frame.
drop_after_credit_keep_unmatched(dropped, idx_credit, match) ==
    IF match # <<>> THEN dropped \cup {idx_credit, match[1]} ELSE dropped

\* Lines 83-88: what one credit adds to to_drop.
drop_after_credit(dropped, idx_credit, match) ==
    IF match # <<>> THEN dropped \cup {idx_credit, match[1]}
    ELSE dropped \cup {idx_credit}

\* df.drop(index=list(to_drop))
RECURSIVE drop_index(_, _)
drop_index(frame, labels) ==
    IF frame = <<>> THEN <<>>
    ELSE (IF Head(frame).idx \in labels THEN <<>> ELSE <<Head(frame)>>)
             \o drop_index(Tail(frame), labels)

\* Mutant: the count is the number of matched pairs' rows only.
removed_count_pairs_only(frame, dropped) ==
    Cardinality({i \in 1..Len(frame) : frame[i].idx \in dropped /\ frame[i].amount > 0}) * 2

\* len(to_drop)
removed_count(frame, dropped) == Cardinality(dropped)

InitReconcile ==
    /\ WriteIdle
    /\ DriverIdle /\ CallIdle /\ ParseFileIdle
    /\ rpc = "credits"
    /\ df \in Frames
    /\ tolerance \in Tolerances
    /\ to_drop = {} /\ cpos = 0 /\ match_idx = <<>> /\ out = <<>> /\ removed = 0

\* Lines 74-88: one iteration of the loop over the credits.
ReconcileCredit ==
    /\ rpc = "credits"
    /\ cpos < Len(Credits(df))
    /\ LET credit == Credits(df)[cpos + 1]
           candidates == debit_groups(Debits(df), credit.description)
           match == find_match(candidates, credit.amount, to_drop, tolerance)
       IN /\ match_idx' = match
          /\ to_drop' = drop_after_credit(to_drop, credit.idx, match)
    /\ cpos' = cpos + 1
    /\ UNCHANGED <<rpc, df, tolerance, out, removed>>
    /\ UNCHANGED <<dvars, fvars, pvars, wvars>>

\* Line 90: drop the collected labels and return the frame and the count.
ReconcileReturn ==
    /\ rpc = "credits"
    /\ cpos = Len(Credits(df))
    /\ out' = drop_index(df, to_drop)
    /\ removed' = removed_count(df, to_drop)
    /\ rpc' = "done"
    /\ UNCHANGED <<df, tolerance, to_drop, cpos, match_idx>>
    /\ UNCHANGED <<dvars, fvars, pvars, wvars>>

NextReconcile == ReconcileCredit \/ ReconcileReturn

SpecReconcile == InitReconcile /\ [][NextReconcile]_vars

\* ======================================================================
\* Properties of reconcile_reimbursements
\* ======================================================================
\* Positions of the credits and of the debits of the frame passed in.
CreditPos == {i \in 1..Len(df) : df[i].amount < 0}

DebitPos == {i \in 1..Len(df) : df[i].amount > 0}

\* The position in df of the n-th credit in ledger order.
NthCredit(n) == CHOOSE p \in CreditPos : Cardinality({q \in CreditPos : q < p}) = n - 1

\* Debit d qualifies for credit c: same description, magnitudes within tolerance.
Qualifies(d, c) ==
    /\ df[d].description = df[c].description
    /\ Abs(df[d].amount + df[c].amount) <= tolerance

RemovedDebits == {d \in DebitPos : df[d].idx \in to_drop}

RemovedCredits == {c \in CreditPos : df[c].idx \in to_drop}

\* C7: credits are handled in ledger order; each consumes the first debit in
\* ledger order that has its description, is not yet consumed and is within the
\* tolerance; then exactly the credit and that debit are marked for removal, and
\* no row with another description is touched.
C7_FirstUnconsumedMatch ==
    [][(rpc = "credits" /\ cpos' = cpos + 1) =>
          LET c == NthCredit(cpos + 1)
              open == {d \in DebitPos : Qualifies(d, c) /\ df[d].idx \notin to_drop}
          IN /\ IF open = {}
                THEN /\ match_idx' = <<>>
                     /\ to_drop' = to_drop \cup {df[c].idx}
                ELSE LET first == CHOOSE d \in open : \A e \in open : d <= e
                     IN /\ match_idx' = <<df[first].idx>>
                        /\ to_drop' = to_drop \cup {df[c].idx, df[first].idx}
             /\ \A i \in 1..Len(df) :
                   df[i].description # df[c].description =>
                       (df[i].idx \in to_drop' <=> df[i].idx \in to_drop)]_vars

\* The credit just handled took a debit one cent off although a later, unconsumed
\* debit of the same description matches it exactly.
C7_Witness ==
    /\ rpc = "credits" /\ cpos >= 1 /\ match_idx # <<>>
    /\ LET c == NthCredit(cpos)
       IN \E d, e \in DebitPos :
             /\ d < e
             /\ df[d].idx = match_idx[1]
             /\ Qualifies(d, c) /\ Qualifies(e, c)
             /\ df[d].amount + df[c].amount # 0
             /\ df[e].amount + df[c].amount = 0
             /\ df[e].idx \notin to_drop

\* C8: a debit is removed only if matched to a credit of identical description
\* within the tolerance, each debit by at most one credit and each credit taking
\* at most one debit: the removed debits never outnumber the credits handled,
\* and every other debit is in the output.
C8_DebitsDroppedOnlyIfMatched ==
    /\ \E f \in [RemovedDebits -> RemovedCredits] :
          /\ \A d, e \in RemovedDebits : d # e => f[d] # f[e]
          /\ \A d \in RemovedDebits : Qualifies(d, f[d])
    /\ Cardinality(RemovedDebits) <= cpos
    /\ cpos <= Cardinality(CreditPos)
    /\ \A c \in RemovedCredits : Cardinality({q \in CreditPos : q < c}) < cpos
    /\ match_idx # <<>> => \E d \in RemovedDebits : df[d].idx = match_idx[1]
    /\ rpc = "done" =>
          \A d \in DebitPos \ RemovedDebits :
              Cardinality({j \in 1..Len(out) : out[j] = df[d]}) = 1

C8_Witness ==
    /\ rpc = "done"
    /\ Cardinality(RemovedDebits) = 1
    /\ Cardinality(RemovedCredits) = 2
    /\ \E d \in DebitPos \ RemovedDebits : \E c \in CreditPos :
          df[d].description = df[c].description

\* C9: the output holds no credit; every credit is removed, matched or not, and
\* a credit with no qualifying unconsumed debit removes itself and nothing else.
C9_AllCreditsDropped ==
    /\ [](/\ \A c \in CreditPos :
                Cardinality({q \in CreditPos : q < c}) < cpos => df[c].idx \in to_drop
          /\ rpc = "done" =>
                /\ \A j \in 1..Len(out) : out[j].amount >= 0
                /\ CreditPos \subseteq RemovedCredits)
    /\ [][(rpc = "credits" /\ cpos' = cpos + 1) =>
             LET c == NthCredit(cpos + 1)
             IN (\A d \in DebitPos : ~(Qualifies(d, c) /\ df[d].idx \notin to_drop)) =>
                    /\ to_drop' = to_drop \cup {df[c].idx}
                    /\ Cardinality(to_drop') = Cardinality(to_drop) + 1]_vars

\* An unmatched credit was dropped while debits, one of its own description
\* among them, stay.
C9_Witness ==
    /\ rpc = "done"
    /\ Cardinality(CreditPos) = 1
    /\ RemovedDebits = {}
    /\ Len(out) = Len(df) - 1
    /\ \E d \in DebitPos : df[d].description = df[NthCredit(1)].description
    /\ \E d \in DebitPos : df[d].description # df[NthCredit(1)].description

\* C10: the count returned is the number of input rows minus the number of
\* output rows, and is the number of credits plus the number of matched debits.
C10_RemovedCount ==
    rpc = "done" =>
        /\ removed = Len(df) - Len(out)
        /\ removed = Cardinality(CreditPos)
                       + Cardinality({d \in DebitPos : \A j \in 1..Len(out) : out[j].idx # df[d].idx})

C10_Witness ==
    /\ rpc = "done"
    /\ removed = 3
    /\ Len(out) = 1
    /\ Cardinality(CreditPos) = 2

\* ====================================================== analyse.py: drop_payments
\* At most this many rows in a ledger handed to drop_payments.
MaxLedger == 3

\* A cell of the is_payment column: True, False or missing (NaN).
PaymentCells == {"True", "False", "NaN"}

\* Ledgers with an is_payment column (index labels 0..n-1) and without one.
PaymentFrames ==
    UNION {{[columns |-> {"description", "amount", "is_payment"},
             data |-> [i \in 1..n |-> [idx |-> i - 1, amount |-> a[i],
                                       is_payment |-> c[i]]]] :
              a \in [1..n -> {-500, 1200}], c \in [1..n -> PaymentCells]}
           : n \in 0..MaxLedger}
    \cup
    UNION {{[columns |-> {"description", "amount"},
             data |-> [i \in 1..n |-> [idx |-> i - 1, amount |-> a[i]]]] :
              a \in [1..n -> {-500, 1200}]}
           : n \in 0..MaxLedger}

\* Series.fillna(False) on one cell.
fillna_False(c) == IF c = "NaN" THEN "False" ELSE c

\* df[mask]: the rows at the positions in keep, in their original order.
RECURSIVE BoolIndex(_, _, _)
BoolIndex(data, keep, i) ==
    IF i > Len(data) THEN <<>>
    ELSE (IF i \in keep THEN <<data[i]>> ELSE <<>>) \o BoolIndex(data, keep, i + 1)

\* Mutant: a missing cell counts as a payment.
drop_payments_nan_is_payment(frame) ==
    IF "is_payment" \notin frame.columns
    THEN [df |-> frame, removed |-> 0]
    ELSE LET pay == {i \in 1..Len(frame.data) : frame.data[i].is_payment # "False"}
         IN  [df |-> [columns |-> frame.columns,
                      data |-> BoolIndex(frame.data, (1..Len(frame.data)) \ pay, 1)],
              removed |-> Cardinality(pay)]

\* Mutant: the missing cells of the ledger are filled before the rows are
\* selected.
drop_payments_fills_in_place(frame) ==
    IF "is_payment" \notin frame.columns
    THEN [df |-> frame, removed |-> 0]
    ELSE LET filled == [i \in 1..Len(frame.data) |->
                           [frame.data[i] EXCEPT !.is_payment = fillna_False(@)]]
             pay == {i \in 1..Len(filled) : filled[i].is_payment = "True"}
         IN  [df |-> [columns |-> frame.columns,
                      data |-> BoolIndex(filled, (1..Len(filled)) \ pay, 1)],
              removed |-> Cardinality(pay)]

\* Mutant: the payments are counted and left in the ledger.
drop_payments_counts_only(frame) ==
    IF "is_payment" \notin frame.columns
    THEN [df |-> frame, removed |-> 0]
    ELSE [df |-> frame,
          removed |-> Cardinality({i \in 1..Len(frame.data) :
                                      fillna_False(frame.data[i].is_payment) = "True"})]

\* analyse.py, drop_payments
drop_payments(frame) ==
    IF "is_payment" \notin frame.columns
    THEN [df |-> frame, removed |-> 0]
    ELSE LET is_payment == [i \in 1..Len(frame.data) |->
                               fillna_False(frame.data[i].is_payment)]
             pay == {i \in 1..Len(frame.data) : is_payment[i] = "True"}
         IN  [df |-> [columns |-> frame.columns,
                      data |-> BoolIndex(frame.data, (1..Len(frame.data)) \ pay, 1)],
              removed |-> Cardinality(pay)]

InitDropPayments ==
    /\ WriteIdle
    /\ DriverIdle /\ ReconcileIdle /\ ParseFileIdle
    /\ fpc = "call" /\ arg \in PaymentFrames /\ ret = <<>>

CallDropPayments ==
    /\ fpc = "call" /\ arg \in PaymentFrames
    /\ ret' = drop_payments(arg)
    /\ fpc' = "done"
    /\ UNCHANGED <<arg, dvars, rvars, pvars, wvars>>

NextDropPayments == CallDropPayments

SpecDropPayments == InitDropPayments /\ [][NextDropPayments]_vars

\* Positions of the rows of the argument whose is_payment is true.
TruePositions ==
    IF "is_payment" \in arg.columns
    THEN {i \in 1..Len(arg.data) : arg.data[i].is_payment = "True"}
    ELSE {}

\* The k-th smallest element of a set of positions.
Nth(S, k) == CHOOSE i \in S : Cardinality({j \in S : j < i}) = k - 1

\* C11: drop_payments returns exactly the rows whose is_payment is not true,
\* in their original order, and the number of rows whose is_payment is true;
\* a ledger without an is_payment column comes back unchanged with count 0.
C11_DropPayments ==
    fpc = "done" =>
        LET kept == (1..Len(arg.data)) \ TruePositions
        IN  /\ ret.removed = Cardinality(TruePositions)
            /\ Len(ret.df.data) = Cardinality(kept)
            /\ \A k \in 1..Cardinality(kept) : ret.df.data[k] = arg.data[Nth(kept, k)]
            /\ ret.df.columns = arg.columns
            /\ "is_payment" \notin arg.columns => ret.df = arg /\ ret.removed = 0

\* A payment, a missing cell and a plain row: the payment alone is removed.
C11_Witness ==
    /\ fpc = "done"
    /\ "is_payment" \in arg.columns
    /\ Len(arg.data) = 3
    /\ arg.data[1].is_payment = "True"
    /\ arg.data[2].is_payment = "NaN"
    /\ arg.data[3].is_payment = "False"
    /\ ret.removed = 1
    /\ Len(ret.df.data) = 2

\* ============================================ parsers/desjardins.py: amounts
\* Characters that are not printable in a string literal.
NBSP == "nbsp"
TAB == "tab"

Digits == <<"0", "1", "2", "3", "4", "5", "6", "7", "8", "9">>

IsDigit(c) == c \in Range(Digits)

DigitVal(c) == (CHOOSE i \in 1..10 : Digits[i] = c) - 1

\* int() of a non-empty string of digits.
RECURSIVE DigitsVal(_)
DigitsVal(s) ==
    IF s = <<>> THEN 0 ELSE 10 * DigitsVal(SubSeq(s, 1, Len(s) - 1)) + DigitVal(s[Len(s)])

\* s with every character of the set cs removed (str.replace(c, "")).
RECURSIVE Remove(_, _)
Remove(s, cs) ==
    IF s = <<>> THEN <<>>
    ELSE (IF Head(s) \in cs THEN <<>> ELSE <<Head(s)>>) \o Remove(Tail(s), cs)

\* str.replace(a, b) for single characters.
Replace(s, a, b) == [i \in 1..Len(s) |-> IF s[i] = a THEN b ELSE s[i]]

\* str.count(c)
Count(s, c) == Cardinality({i \in 1..Len(s) : s[i] = c})

\* str.strip(chars), str.lstrip(chars), str.rstrip(chars)
RECURSIVE LStrip(_, _)
LStrip(s, cs) == IF s # <<>> /\ Head(s) \in cs THEN LStrip(Tail(s), cs) ELSE s

RECURSIVE RStrip(_, _)
RStrip(s, cs) ==
    IF s # <<>> /\ s[Len(s)] \in cs THEN RStrip(SubSeq(s, 1, Len(s) - 1), cs) ELSE s

Strip(s, cs) == RStrip(LStrip(s, cs), cs)

\* float(s) in cents, <<>> for ValueError.  Surrounding white space is
\* accepted; the body is digits, or digits "." digits with at most two
\* decimals (the shapes AMOUNT_TRAIL_RE lets through).
float(s) ==
    LET t == Strip(s, {" ", TAB})
        dots == {i \in 1..Len(t) : t[i] = "."}
    IN  IF t = <<>> \/ \E i \in 1..Len(t) : ~IsDigit(t[i]) /\ t[i] # "." THEN <<>>
        ELSE IF dots = {} THEN <<100 * DigitsVal(t)>>
        ELSE IF Cardinality(dots) > 1 THEN <<>>
        ELSE LET d == CHOOSE i \in dots : TRUE
                 whole == SubSeq(t, 1, d - 1)
                 frac == SubSeq(t, d + 1, Len(t))
             IN  IF Len(t) = 1 \/ Len(frac) > 2 THEN <<>>
                 ELSE <<100 * DigitsVal(whole)
                        + (IF Len(frac) = 1 THEN 10 * DigitsVal(frac) ELSE DigitsVal(frac))>>

\* Mutant: a credit suffix and a minus sign cancel each other.
amount_signs_cancel(amt_raw) ==
    LET is_credit == EndsWith(amt_raw, <<"C", "R">>)
        s1 == IF is_credit THEN SubSeq(amt_raw, 1, Len(amt_raw) - 2) ELSE amt_raw
        minus == s1 # <<>> /\ Head(s1) = "-"
        s2 == IF minus THEN Tail(s1) ELSE s1
        parens == s2 # <<>> /\ Head(s2) = "(" /\ s2[Len(s2)] = ")"
        s3 == IF parens THEN Strip(s2, {"(", ")"}) ELSE s2
        c1 == Remove(s3, {" ", NBSP})
        amt_clean == IF Count(c1, ",") = 1 /\ Count(c1, ".") = 0
                     THEN Replace(c1, ",", ".") ELSE c1
        value == float(amt_clean)
    IN  IF value = <<>> THEN <<>>
        ELSE IF (is_credit /\ ~minus) \/ (minus /\ ~is_credit) \/ parens
             THEN <<-value[1]>> ELSE value

\* parse_file lines 67-90: amount_raw to a signed amount (<<>>: row skipped).
amount(amt_raw) ==
    LET is_credit == EndsWith(amt_raw, <<"C", "R">>)
        s1 == IF is_credit THEN SubSeq(amt_raw, 1, Len(amt_raw) - 2) ELSE amt_raw
        minus == s1 # <<>> /\ Head(s1) = "-"
        s2 == IF minus THEN Tail(s1) ELSE s1
        parens == s2 # <<>> /\ Head(s2) = "(" /\ s2[Len(s2)] = ")"
        amt_stripped == IF parens THEN Strip(s2, {"(", ")"}) ELSE s2
        negative == minus \/ parens
        c1 == Remove(amt_stripped, {" ", NBSP})
        amt_clean == IF Count(c1, ",") = 1 /\ Count(c1, ".") = 0
                     THEN Replace(c1, ",", ".") ELSE c1
        value == float(amt_clean)
    IN  IF value = <<>> THEN <<>>
        ELSE IF is_credit \/ negative THEN <<-value[1]>> ELSE value

\* The digit groups before the comma, with the white space AMOUNT_TRAIL_RE
\* admits between digits.
IntParts ==
    {<<"0">>, <<"9", "0">>, <<"1", "2">>, <<"4", "5">>,
     <<"1", " ", "2", "3", "4">>, <<"1", NBSP, "2", "3", "4">>, <<"1", TAB, "2">>}

Fractions == {<<"0", "0">>, <<"4", "5">>, <<"3", "4">>, <<"6", "7">>}

\* The tokens AMOUNT_TRAIL_RE matches, with the parts they are made of:
\*   -?\d[\d\s]*,\d{2}(?:CR)?  |  -?\d[\d\s]*CR  |  \(\d[\d\s]*,\d{2}\)
AmountTokens ==
    {[raw |-> m \o i \o <<",">> \o f \o c, int |-> i, frac |-> f,
      minus |-> m # <<>>, cr |-> c # <<>>, parens |-> FALSE] :
        m \in {<<>>, <<"-">>}, i \in IntParts, f \in Fractions, c \in {<<>>, <<"C", "R">>}}
    \cup
    {[raw |-> m \o i \o <<"C", "R">>, int |-> i, frac |-> <<"0", "0">>,
      minus |-> m # <<>>, cr |-> TRUE, parens |-> FALSE] :
        m \in {<<>>, <<"-">>}, i \in IntParts}
    \cup
    {[raw |-> <<"(">> \o i \o <<",">> \o f \o <<")">>, int |-> i, frac |-> f,
      minus |-> FALSE, cr |-> FALSE, parens |-> TRUE] :
        i \in IntParts, f \in Fractions}

InitAmount ==
    /\ WriteIdle
    /\ DriverIdle /\ ReconcileIdle /\ ParseFileIdle
    /\ fpc = "call" /\ arg \in AmountTokens /\ ret = <<>>

CallAmount ==
    /\ fpc = "call" /\ arg \in AmountTokens
    /\ ret' = amount(arg.raw)
    /\ fpc' = "done"
    /\ UNCHANGED <<arg, dvars, rvars, pvars, wvars>>

SpecAmount == InitAmount /\ [][CallAmount]_vars

\* What the digits of a token read as, in cents, with the comma as the
\* decimal separator and the white space between digits ignored.
Magnitude ==
    100 * (CASE arg.int = <<"0">> -> 0
             [] arg.int = <<"9", "0">> -> 90
             [] arg.int = <<"1", "2">> -> 12
             [] arg.int = <<"4", "5">> -> 45
             [] OTHER -> 1234)
    + (CASE arg.frac = <<"0", "0">> -> 0
         [] arg.frac = <<"4", "5">> -> 45
         [] arg.frac = <<"3", "4">> -> 34
         [] OTHER -> 67)

Converted == fpc = "done" /\ ret # <<>>

\* C12 as stated: the amount is negative exactly when the token has a CR
\* suffix or is parenthesized and positive otherwise, with the magnitude of
\* its digits.
C12_NegativeIffCrOrParens ==
    Converted /\ Magnitude > 0 =>
        /\ (ret[1] < 0) <=> (arg.cr \/ arg.parens)
        /\ Abs(ret[1]) = Magnitude

\* C12, amended: the amount is minus the magnitude exactly when the token
\* has a CR suffix, a leading minus sign or parentheses, and the magnitude
\* itself otherwise; "90,45" gives 90.45, "12,34CR" -12.34, "(45,67)" -45.67.
C12_NegativeIffCrMinusOrParens ==
    Converted =>
        /\ ret[1] = IF arg.cr \/ arg.minus \/ arg.parens THEN -Magnitude ELSE Magnitude
        /\ arg.raw = <<"9", "0", ",", "4", "5">> => ret[1] = 9045
        /\ arg.raw = <<"1", "2", ",", "3", "4", "C", "R">> => ret[1] = -1234
        /\ arg.raw = <<"(", "4", "5", ",", "6", "7", ")">> => ret[1] = -4567

\* A token with both a minus sign and a CR suffix has been converted.
C12_Witness ==
    /\ Converted
    /\ arg.raw = <<"-", "1", " ", "2", "3", "4", ",", "3", "4", "C", "R">>
    /\ ret = <<-123434>>

\* ========================================= parsers/desjardins.py: parse_dd_mm
\* The characters str.split() and \s treat as white space.
WhiteSpace == {" ", TAB, NBSP}

\* str.split(): the maximal runs of non-white-space characters.
RECURSIVE Split(_)
Split(s) ==
    LET t == LStrip(s, WhiteSpace)
    IN  IF t = <<>> THEN <<>>
        ELSE LET n == IF \E i \in 1..Len(t) : t[i] \in WhiteSpace
                      THEN (CHOOSE i \in 1..Len(t) :
                               /\ t[i] \in WhiteSpace
                               /\ \A j \in 1..(i - 1) : t[j] \notin WhiteSpace) - 1
                      ELSE Len(t)
             IN  <<SubSeq(t, 1, n)>> \o Split(SubSeq(t, n + 1, Len(t)))

\* str.isdigit()
isdigit(s) == s # <<>> /\ \A i \in 1..Len(s) : IsDigit(s[i])

IsLeap(y) == (y % 4 = 0 /\ y % 100 # 0) \/ y % 400 = 0

DaysInMonth(y, m) ==
    IF m = 2 THEN (IF IsLeap(y) THEN 29 ELSE 28)
    ELSE IF m \in {4, 6, 9, 11} THEN 30 ELSE 31

\* datetime(y, m, d) / date(y, m, d) does not raise ValueError.
ValidDate(y, m, d) ==
    /\ y \in 1..9999 /\ m \in 1..12
    /\ d >= 1 /\ d <= DaysInMonth(y, m)

\* Mutant: the calendar is not consulted.
parse_dd_mm_unchecked(date_str, y) ==
    LET parts == Split(date_str)
    IN  IF Len(parts) # 2 \/ ~isdigit(parts[1]) \/ ~isdigit(parts[2]) THEN <<>>
        ELSE <<<<y, DigitsVal(parts[2]), DigitsVal(parts[1])>>>>

\* parse_dd_mm: a date <<year, month, day>> in a one-element sequence, or
\* <<>> for None.
parse_dd_mm(date_str, y) ==
    LET parts == Split(date_str)
    IN  IF Len(parts) # 2 \/ ~isdigit(parts[1]) \/ ~isdigit(parts[2]) THEN <<>>
        ELSE LET day == DigitsVal(parts[1])
                 month == DigitsVal(parts[2])
             IN  IF ValidDate(y, month, day) THEN <<<<y, month, day>>>> ELSE <<>>

DayStrs ==
    {<<"0", "0">>, <<"0", "1">>, <<"1", "0">>, <<"2", "9">>, <<"3", "0">>,
     <<"3", "1">>, <<"3", "2">>}

MonthStrs ==
    {<<"0", "0">>, <<"0", "2">>, <<"0", "4">>, <<"0", "6">>, <<"1", "2">>, <<"1", "3">>}

\* What stands between the two digit groups, and after them.
Separators == {<<" ">>, <<" ", " ">>, <<TAB>>, <<"-">>, <<"/">>, <<>>}
Trailers == {<<>>, <<" ", "0", "7">>}

\* A third group follows only two groups that are already separated.
DateTokens ==
    UNION {{[date_str |-> d \o s \o m \o x, day |-> d, sep |-> s, month |-> m,
             extra |-> x, year |-> y] :
               d \in DayStrs, m \in MonthStrs,
               x \in IF s = <<>> THEN {<<>>} ELSE Trailers, y \in {2024, 2025}}
           : s \in Separators}

InitParseDdMm ==
    /\ WriteIdle
    /\ DriverIdle /\ ReconcileIdle /\ ParseFileIdle
    /\ fpc = "call" /\ arg \in DateTokens /\ ret = <<>>

CallParseDdMm ==
    /\ fpc = "call" /\ arg \in DateTokens
    /\ ret' = parse_dd_mm(arg.date_str, arg.year)
    /\ fpc' = "done"
    /\ UNCHANGED <<arg, dvars, rvars, pvars, wvars>>

SpecParseDdMm == InitParseDdMm /\ [][CallParseDdMm]_vars

\* The number a two-digit group of the token stands for.
TwoDigits(s) == 10 * DigitVal(s[1]) + DigitVal(s[2])

\* The token is two digit groups separated by white space and nothing else.
TwoGroups == arg.sep \in {<<" ">>, <<" ", " ">>, <<TAB>>} /\ arg.extra = <<>>

\* The calendar of the years drawn: 2024 is a leap year, 2025 is not.
CalendarDate ==
    LET d == TwoDigits(arg.day)
        m == TwoDigits(arg.month)
    IN  /\ m \in 1..12 /\ d >= 1
        /\ d <= (CASE m = 2 -> (IF arg.year = 2024 THEN 29 ELSE 28)
                   [] m \in {4, 6} -> 30
                   [] OTHER -> 31)

\* C13: parse_dd_mm returns the date (year, MM, DD) when the token is two
\* white-space-separated digit groups that form a calendar date of that
\* year, and None otherwise (invalid day or month as in "32 06", malformed
\* shape as in "10-06").
C13_ParseDdMm ==
    fpc = "done" =>
        ret = IF TwoGroups /\ CalendarDate
              THEN <<<<arg.year, TwoDigits(arg.month), TwoDigits(arg.day)>>>>
              ELSE <<>>

\* "32 06" has been rejected in 2025.
C13_Witness ==
    /\ fpc = "done"
    /\ arg.date_str = <<"3", "2", " ", "0", "6">>
    /\ arg.year = 2025
    /\ ret = <<>>

\* ================================ parsers/desjardins.py: parse_file, the rows
\* At most this many raw rows on the pages of one statement.
MaxRawRows == 3

UpperCase ==
    <<"A", "B", "C", "D", "E", "F", "G", "H", "I", "J", "K", "L", "M",
      "N", "O", "P", "Q", "R", "S", "T", "U", "V", "W", "X", "Y", "Z">>

LowerCase ==
    <<"a", "b", "c", "d", "e", "f", "g", "h", "i", "j", "k", "l", "m",
      "n", "o", "p", "q", "r", "s", "t", "u", "v", "w", "x", "y", "z">>

\* str.upper()
UpperChar(c) ==
    IF \E i \in 1..26 : LowerCase[i] = c
    THEN UpperCase[CHOOSE i \in 1..26 : LowerCase[i] = c]
    ELSE IF c = "é" THEN "É" ELSE c

Upper(s) == [i \in 1..Len(s) |-> UpperChar(s[i])]

\* str.startswith(p)
StartsWith(s, p) == Len(s) >= Len(p) /\ SubSeq(s, 1, Len(p)) = p

\* date < date
DateLess(a, b) ==
    \/ a[1] < b[1]
    \/ a[1] = b[1] /\ a[2] < b[2]
    \/ a[1] = b[1] /\ a[2] = b[2] /\ a[3] < b[3]

\* Mutant: the order of the two dates is not looked at.
parse_row_any_order(r, y) ==
    LET tx_date == parse_dd_mm(r.transaction_date_raw, y)
        posted_date == parse_dd_mm(r.posted_date_raw, y)
    IN  IF tx_date = <<>> \/ posted_date = <<>> THEN <<>>
        ELSE IF amount(r.amount_raw) = <<>> THEN <<>>
        ELSE IF r.description = <<>> THEN <<>>
        ELSE <<[transaction_date |-> tx_date[1],
                posted_date |-> posted_date[1],
                transaction_date_raw |-> r.transaction_date_raw,
                posted_date_raw |-> r.posted_date_raw,
                description |-> r.description,
                amount |-> amount(r.amount_raw)[1],
                is_payment |-> StartsWith(Upper(r.description), <<"P", "A", "I", "E", "M", "E", "N", "T", " ", "C", "A", "I", "S", "S", "E">>)]>>

\* parse_file lines 54-113, the body of "for r in rows": the row appended to
\* all_tx in a one-element sequence, or <<>> when the raw row is skipped.
\* Dates are <<year, month, day>>, written out as %Y-%m-%d.
parse_row(r, y) ==
    LET tx_date == parse_dd_mm(r.transaction_date_raw, y)
        posted_date == parse_dd_mm(r.posted_date_raw, y)
    IN  IF tx_date = <<>> \/ posted_date = <<>> THEN <<>>
        ELSE IF DateLess(posted_date[1], tx_date[1]) THEN <<>>
        ELSE IF amount(r.amount_raw) = <<>> THEN <<>>
        ELSE IF r.description = <<>> THEN <<>>
        ELSE <<[transaction_date |-> tx_date[1],
                posted_date |-> posted_date[1],
                transaction_date_raw |-> r.transaction_date_raw,
                posted_date_raw |-> r.posted_date_raw,
                description |-> r.description,
                amount |-> amount(r.amount_raw)[1],
                is_payment |-> StartsWith(Upper(r.description), <<"P", "A", "I", "E", "M", "E", "N", "T", " ", "C", "A", "I", "S", "S", "E">>)]>>

\* A raw row as parse_page_transactions returns it.
RawRow(tx, posted, amt, desc) ==
    [transaction_date_raw |-> tx, posted_date_raw |-> posted, amount_raw |-> amt,
     description |-> desc]

RowDebit == RawRow(<<"1", "0", " ", "0", "6">>, <<"1", "1", " ", "0", "6">>, <<"9", "0", ",", "4", "5">>, <<"Z", "E", "H", "R", "S", " ", "#", "1", "2">>)
RowCredit == RawRow(<<"1", "0", " ", "0", "6">>, <<"1", "0", " ", "0", "6">>, <<"1", "2", ",", "3", "4", "C", "R">>, <<"R", "e", "m", "i", "s", "e">>)
RowPayment == RawRow(<<"2", "9", " ", "0", "2">>, <<"2", "9", " ", "0", "2">>, <<"(", "4", "5", ",", "6", "7", ")">>, <<"P", "a", "i", "e", "m", "e", "n", "t", " ", "C", "a", "i", "s", "s", "e">>)
RowBadTxDate == RawRow(<<"3", "2", " ", "0", "6">>, <<"1", "1", " ", "0", "6">>, <<"9", "0", ",", "4", "5">>, <<"Z", "E", "H", "R", "S", " ", "#", "1", "2">>)
RowBadPostedDate == RawRow(<<"1", "0", " ", "0", "6">>, <<"3", "1", " ", "0", "6">>, <<"9", "0", ",", "4", "5">>, <<"Z", "E", "H", "R", "S", " ", "#", "1", "2">>)
RowPostedEarlier == RawRow(<<"1", "1", " ", "0", "6">>, <<"1", "0", " ", "0", "6">>, <<"9", "0", ",", "4", "5">>, <<"Z", "E", "H", "R", "S", " ", "#", "1", "2">>)
RowBadAmount == RawRow(<<"1", "0", " ", "0", "6">>, <<"1", "1", " ", "0", "6">>, <<"1", TAB, "2", ",", "0", "0">>, <<"Z", "E", "H", "R", "S", " ", "#", "1", "2">>)
RowNoDescription == RawRow(<<"1", "0", " ", "0", "6">>, <<"1", "1", " ", "0", "6">>, <<"9", "0", ",", "4", "5">>, <<>>)

RawRowKinds ==
    {RowDebit, RowCredit, RowPayment, RowBadTxDate, RowBadPostedDate,
     RowPostedEarlier, RowBadAmount, RowNoDescription}

RawRowLists == UNION {[1..n -> RawRowKinds] : n \in 0..MaxRawRows}

\* The row loop with the year already determined.
InitRows ==
    /\ WriteIdle
    /\ DriverIdle /\ ReconcileIdle /\ CallIdle
    /\ ppc = "rows"
    /\ year \in {2024, 2025}
    /\ raw_rows \in RawRowLists
    /\ rowno = 0 /\ all_tx = <<>> /\ skipped = 0

\* One iteration of "for r in rows".
ParseRow ==
    /\ ppc = "rows" /\ rowno < Len(raw_rows)
    /\ LET row == parse_row(raw_rows[rowno + 1], year)
       IN  /\ all_tx' = all_tx \o row
           /\ skipped' = IF row = <<>> THEN skipped + 1 ELSE skipped
    /\ rowno' = rowno + 1
    /\ UNCHANGED <<ppc, year, raw_rows, dvars, rvars, fvars, wvars>>

\* return pd.DataFrame(all_tx)
ParseFileReturn ==
    /\ ppc = "rows" /\ rowno = Len(raw_rows)
    /\ ppc' = "returned"
    /\ UNCHANGED <<year, raw_rows, rowno, all_tx, skipped, dvars, rvars, fvars, wvars>>

NextRows == ParseRow \/ ParseFileReturn

SpecRows == InitRows /\ [][NextRows]_vars

\* The raw rows that have every field in order.  29 February exists in 2024
\* only.
WellFormed(r) ==
    \/ r \in {RowDebit, RowCredit}
    \/ r = RowPayment /\ year = 2024

\* Positions of the well-formed rows among the raw rows consumed so far.
WellFormedSoFar == {i \in 1..rowno : WellFormed(raw_rows[i])}

\* C14: every row Grammar A emits has two valid dates with posted_date >=
\* transaction_date, a numeric amount and a non-empty description; a raw row
\* failing any of these is dropped, and the rows after it are still examined
\* and emitted.
C14_EmittedRowsWellFormed ==
    /\ ppc \in {"rows", "returned"}
    /\ \A k \in 1..Len(all_tx) :
          /\ ValidDate(all_tx[k].transaction_date[1], all_tx[k].transaction_date[2],
                       all_tx[k].transaction_date[3])
          /\ ValidDate(all_tx[k].posted_date[1], all_tx[k].posted_date[2],
                       all_tx[k].posted_date[3])
          /\ ~DateLess(all_tx[k].posted_date, all_tx[k].transaction_date)
          /\ all_tx[k].amount \in Int
          /\ all_tx[k].description # <<>>
    /\ Len(all_tx) = Cardinality(WellFormedSoFar)
    /\ skipped = rowno - Len(all_tx)
    /\ \A k \in 1..Len(all_tx) :
          LET r == raw_rows[Nth(WellFormedSoFar, k)]
          IN  /\ all_tx[k].transaction_date_raw = r.transaction_date_raw
              /\ all_tx[k].posted_date_raw = r.posted_date_raw
              /\ all_tx[k].description = r.description
    /\ ppc = "returned" => rowno = Len(raw_rows)

\* A row with an invalid date and one with posted before transaction were
\* dropped, and the row after them was emitted.
C14_Witness ==
    /\ ppc = "returned"
    /\ raw_rows = <<RowBadTxDate, RowPostedEarlier, RowCredit>>
    /\ Len(all_tx) = 1
    /\ all_tx[1].amount = -1234
    /\ skipped = 2

\* ==================== parsers/desjardins.py: the statement year of a file
\* At most this many lines on the first page of a statement.
MaxPieces == 2

NL == "nl"

\* \s of the re module.
ReSpace == WhiteSpace \cup {NL}

Least(S) == CHOOSE q \in S : \A r \in S : q <= r

\* Ann[ée]e\s+(\d{4}) matched at position j (IGNORECASE): the position of the
\* four digits, 0 for no match.
AnneeAt(t, j) ==
    IF j + 4 > Len(t) \/ Upper(SubSeq(t, j, j + 4)) \notin {<<"A", "N", "N", "É", "E">>, <<"A", "N", "N", "E", "E">>}
    THEN 0
    ELSE LET rest == {p \in (j + 5)..Len(t) : t[p] \notin ReSpace}
             p == IF rest = {} THEN 0 ELSE Least(rest)
         IN  IF p > j + 5 /\ p + 3 <= Len(t) /\ isdigit(SubSeq(t, p, p + 3))
             THEN p ELSE 0

\* re.search(r"Ann[ée]e\s+(\d{4})", text, re.IGNORECASE): int(group 1) in a
\* one-element sequence, or <<>>.
search_annee(t) ==
    LET hits == {j \in 1..Len(t) : AnneeAt(t, j) # 0}
    IN  IF hits = {} THEN <<>>
        ELSE LET p == AnneeAt(t, Least(hits)) IN <<DigitsVal(SubSeq(t, p, p + 3))>>

\* DATE DU RELEV[ÉE] matched at position i (IGNORECASE).
PhraseAt(t, i) ==
    /\ i + 13 <= Len(t)
    /\ Upper(SubSeq(t, i, i + 12)) = <<"D", "A", "T", "E", " ", "D", "U", " ", "R", "E", "L", "E", "V">>
    /\ UpperChar(t[i + 13]) \in {"É", "E"}

\* parse_statement_date_from_page on the page's text:
\* re.search(r"DATE DU RELEV[ÉE].*?Ann[ée]e\s+(\d{4})", text, re.IGNORECASE).
\* "." does not match a line break.
parse_statement_date_from_page(t) ==
    LET after(i) == {j \in (i + 14)..Len(t) :
                        /\ AnneeAt(t, j) # 0
                        /\ \A k \in (i + 14)..(j - 1) : t[k] # NL}
        starts == {i \in 1..Len(t) : PhraseAt(t, i) /\ after(i) # {}}
    IN  IF starts = {} THEN <<>>
        ELSE LET p == AnneeAt(t, Least(after(Least(starts))))
             IN  <<DigitsVal(SubSeq(t, p, p + 3))>>

\* re.findall(r"(\d{4})", filename): the non-overlapping matches from the
\* left.
RECURSIVE findall_4digits(_)
findall_4digits(s) ==
    IF Len(s) < 4 THEN <<>>
    ELSE IF isdigit(SubSeq(s, 1, 4))
         THEN <<SubSeq(s, 1, 4)>> \o findall_4digits(SubSeq(s, 5, Len(s)))
         ELSE findall_4digits(Tail(s))

\* infer_year_from_filename; now is datetime.now().year.
infer_year_from_filename(filename, now) ==
    LET matches == findall_4digits(filename)
    IN  IF matches # <<>> THEN DigitsVal(matches[Len(matches)]) ELSE now

\* determine_statement_year(pdf_path, filename, sniff).  a.sniff is <<>> for
\* no sniff (or a sniff without text) and <<text>> otherwise; a.opens and
\* a.text describe what pdfplumber finds at pdf_path (a.text is <<>> for a
\* document without pages, <<text>> otherwise).
determine_statement_year(a) ==
    LET m == IF a.sniff # <<>> /\ a.sniff[1] # <<>> THEN search_annee(a.sniff[1]) ELSE <<>>
        y == IF a.opens /\ a.text # <<>>
             THEN parse_statement_date_from_page(a.text[1]) ELSE <<>>
    IN  IF m # <<>> THEN m[1]
        ELSE IF y # <<>> /\ y[1] # 0 THEN y[1]
        ELSE infer_year_from_filename(a.filename, a.now)

\* Lines a first page is made of.
PieceText(p) ==
    CASE p = "header2025" -> <<"D", "A", "T", "E", " ", "D", "U", " ", "R", "E", "L", "E", "V", "É", " ", "J", "o", "u", "r", " ", "0", "5", " ">> \o <<"M", "o", "i", "s", " ", "0", "6", " ", "A", "n", "n", "é", "e", " ", "2", "0", "2", "5">> \o <<NL>>
      [] p = "header2024" -> <<"D", "a", "t", "e", " ", "d", "u", " ", "r", "e", "l", "e", "v", "e", " ", "j", "o", "u", "r", " ", "0", "5", " ">> \o <<"m", "o", "i", "s", " ", "0", "6", " ", "a", "n", "n", "e", "e", " ", "2", "0", "2", "4">> \o <<NL>>
      [] p = "mention2019" -> <<"S", "o", "l", "d", "e", " ", "A", "n", "n", "é", "e", " ", "2", "0", "1", "9">> \o <<NL>>
      [] p = "brand" -> <<"D", "E", "S", "J", "A", "R", "D", "I", "N", "S">> \o <<NL>>

Pieces == {"header2025", "header2024", "mention2019", "brand"}

PageTexts == UNION {[1..n -> Pieces] : n \in 1..MaxPieces}

TextOf(ps) == Concat([i \in 1..Len(ps) |-> PieceText(ps[i])])

FileNames == {<<"r", "e", "l", "e", "v", "e", ".", "p", "d", "f">>, <<"r", "e", "l", "e", "v", "e", "_", "2", "0", "2", "3", ".", "p", "d", "f">>, <<"2", "0", "2", "2", "-", "2", "0", "2", "3", ".", "p", "d", "f">>}

\* A file handed to parse_file: what is at the path, and the sniff the
\* caller passes (the dispatcher passes the text sniff_file read from the
\* same first page; a direct caller may pass none).
YearInputs ==
    {[filename |-> f, pieces |-> ps, opens |-> TRUE, text |-> <<TextOf(ps)>>,
      sniff |-> IF s THEN <<TextOf(ps)>> ELSE <<>>, now |-> 2026] :
        f \in FileNames, ps \in PageTexts, s \in BOOLEAN}
    \cup
    {[filename |-> f, pieces |-> <<>>, opens |-> o, text |-> <<>>, sniff |-> <<>>,
      now |-> 2026] : f \in FileNames, o \in BOOLEAN}

InitYear ==
    /\ WriteIdle
    /\ DriverIdle /\ ReconcileIdle
    /\ fpc = "idle" /\ ret = <<>>
    /\ arg \in YearInputs
    /\ ppc = "year" /\ year = 0
    /\ raw_rows \in IF arg.text = <<>> THEN {<<>>}
                    ELSE {<<RowDebit, RowBadAmount, RowCredit>>, <<RowPayment>>}
    /\ rowno = 0 /\ all_tx = <<>> /\ skipped = 0

\* parse_file lines 42-50: the year, then the document is opened.
DetermineYear ==
    /\ ppc = "year"
    /\ year' = determine_statement_year(arg)
    /\ ppc' = IF arg.opens THEN "rows" ELSE "raised"
    /\ UNCHANGED <<raw_rows, rowno, all_tx, skipped, dvars, rvars, fvars, wvars>>

NextYear == DetermineYear \/ ParseRow \/ ParseFileReturn

SpecYear == InitYear /\ [][NextYear]_vars

\* The year of the statement-date header on the page: the first header line.
HeaderYear ==
    LET hs == {i \in 1..Len(arg.pieces) : arg.pieces[i] \in {"header2025", "header2024"}}
    IN  IF hs = {} THEN 0
        ELSE IF arg.pieces[Least(hs)] = "header2025" THEN 2025 ELSE 2024

\* The last four-digit group of the file name, 0 when it has none.
FileNameYear ==
    CASE arg.filename = <<"r", "e", "l", "e", "v", "e", "_", "2", "0", "2", "3", ".", "p", "d", "f">> -> 2023
      [] arg.filename = <<"2", "0", "2", "2", "-", "2", "0", "2", "3", ".", "p", "d", "f">> -> 2023
      [] OTHER -> 0

\* C15: Grammar A determines one year per file, the year in the
\* statement-date header if one is present, otherwise the last 4-digit group
\* in the file name, otherwise the current year, and every transaction and
\* posted date emitted for the file carries that year.
C15_OneYearPerFile ==
    ppc \in {"rows", "returned"} =>
        /\ year = IF HeaderYear # 0 THEN HeaderYear
                  ELSE IF FileNameYear # 0 THEN FileNameYear
                  ELSE arg.now
        /\ \A k \in 1..Len(all_tx) :
              all_tx[k].transaction_date[1] = year /\ all_tx[k].posted_date[1] = year

\* ======================================== parsers/td.py: parse_date_range
\* MONTH_MAP: the abbreviations in calendar order.
MONTH_MAP ==
    <<<<"J", "A", "N">>, <<"F", "E", "B">>, <<"M", "A", "R">>, <<"A", "P", "R">>, <<"M", "A", "Y">>, <<"J", "U", "N">>,
      <<"J", "U", "L">>, <<"A", "U", "G">>, <<"S", "E", "P">>, <<"O", "C", "T">>, <<"N", "O", "V">>, <<"D", "E", "C">>>>

\* MONTH_MAP.get(mon, 0)
MONTH_MAP_get(mon) ==
    IF \E i \in 1..12 : MONTH_MAP[i] = mon
    THEN CHOOSE i \in 1..12 : MONTH_MAP[i] = mon
    ELSE 0

\* [A-Z]
IsUpperLetter(c) == c \in Range(UpperCase)

\* The first position at or after i that holds no white space.
SkipSpace(t, i) ==
    IF \E p \in i..Len(t) : t[p] \notin ReSpace
    THEN Least({p \in i..Len(t) : t[p] \notin ReSpace})
    ELSE Len(t) + 1

\* ([A-Z]{3})\s*(\d{1,2})/(\d{2}) matched at position i: the groups and the
\* position after the match in a one-element sequence, or <<>>.
RangeEndAt(t, i) ==
    IF i + 2 > Len(t) \/ \E k \in i..(i + 2) : ~IsUpperLetter(t[k]) THEN <<>>
    ELSE LET d == SkipSpace(t, i + 3)
             n == IF d + 1 <= Len(t) /\ IsDigit(t[d + 1]) THEN 2 ELSE 1
         IN  IF d > Len(t) \/ ~IsDigit(t[d]) THEN <<>>
             ELSE IF d + n + 2 > Len(t) \/ t[d + n] # "/"
                     \/ ~isdigit(SubSeq(t, d + n + 1, d + n + 2)) THEN <<>>
             ELSE <<[mon |-> SubSeq(t, i, i + 2),
                     day |-> DigitsVal(SubSeq(t, d, d + n - 1)),
                     yy |-> DigitsVal(SubSeq(t, d + n + 1, d + n + 2)),
                     next |-> d + n + 3]>>

\* DATE_RANGE_RE matched at position i: the two halves, or <<>>.
DateRangeAt(t, i) ==
    LET a == RangeEndAt(t, i)
    IN  IF a = <<>> THEN <<>>
        ELSE IF a[1].next > Len(t) \/ t[a[1].next] # "-" THEN <<>>
        ELSE LET b == RangeEndAt(t, a[1].next + 1)
             IN  IF b = <<>> THEN <<>> ELSE <<a[1], b[1]>>

\* Mutant: both endpoints are given the start's year.
parse_date_range_one_year(t) ==
    LET hits == {i \in 1..Len(t) : DateRangeAt(t, i) # <<>>}
    IN  IF hits = {} THEN <<>>
        ELSE LET m == DateRangeAt(t, Least(hits))
             IN  <<<<2000 + m[1].yy, MONTH_MAP_get(m[1].mon), m[1].day>>,
                   <<2000 + m[1].yy, MONTH_MAP_get(m[2].mon), m[2].day>>>>

\* parse_date_range: <<start, end>> with each endpoint <<year, month, day>>,
\* or <<>> for None.
parse_date_range(t) ==
    LET hits == {i \in 1..Len(t) : DateRangeAt(t, i) # <<>>}
    IN  IF hits = {} THEN <<>>
        ELSE LET m == DateRangeAt(t, Least(hits))
             IN  <<<<2000 + m[1].yy, MONTH_MAP_get(m[1].mon), m[1].day>>,
                   <<2000 + m[2].yy, MONTH_MAP_get(m[2].mon), m[2].day>>>>

\* Three-letter codes in a header: months, a code that is no month, and a
\* month in lower case.
HeaderCodes == {<<"O", "C", "T">>, <<"N", "O", "V">>, <<"D", "E", "C">>, <<"J", "A", "N">>, <<"A", "B", "C">>, <<"o", "c", "t">>}

\* First-page texts holding a date-range header or something close to one.
HeaderTexts ==
    {[text |-> p \o m1 \o s \o d1 \o <<"/">> \o y[1] \o j \o m2 \o <<"2", "8", "/">> \o y[2] \o <<NL>>,
      mon1 |-> m1, day1 |-> d1, yy1 |-> y[1], sep |-> j, mon2 |-> m2, yy2 |-> y[2]] :
        p \in {<<>>, <<"S", "t", "a", "t", "e", "m", "e", "n", "t", " ", "F", "r", "o", "m", " ">>}, m1 \in HeaderCodes, s \in {<<>>, <<" ">>},
        d1 \in {<<"3", "1">>, <<"1">>}, y \in {<<<<"2", "5">>, <<"2", "5">>>>, <<<<"2", "5">>, <<"2", "6">>>>},
        j \in {<<"-">>, <<" ", "-", " ">>, <<" ", "t", "o", " ">>}, m2 \in HeaderCodes}

InitDateRange ==
    /\ WriteIdle
    /\ DriverIdle /\ ReconcileIdle /\ ParseFileIdle
    /\ fpc = "call" /\ arg \in HeaderTexts /\ ret = <<>>

CallDateRange ==
    /\ fpc = "call" /\ arg \in HeaderTexts
    /\ ret' = parse_date_range(arg.text)
    /\ fpc' = "done"
    /\ UNCHANGED <<arg, dvars, rvars, pvars, wvars>>

SpecDateRange == InitDateRange /\ [][CallDateRange]_vars

\* The calendar number of a month abbreviation of the header, 0 for a code
\* that is no month.
CalendarNumber(code) ==
    CASE code = <<"J", "A", "N">> -> 1 [] code = <<"O", "C", "T">> -> 10 [] code = <<"N", "O", "V">> -> 11
      [] code = <<"D", "E", "C">> -> 12 [] OTHER -> 0

DayNumber(d) == IF d = <<"3", "1">> THEN 31 ELSE 1

YearNumber(y) == IF y = <<"2", "5">> THEN 2025 ELSE 2026

\* The text holds three capital letters, a day, "/yy", "-", and the same again.
HasRangeHeader ==
    arg.sep = <<"-">> /\ arg.mon1 # <<"o", "c", "t">> /\ arg.mon2 # <<"o", "c", "t">>

\* C16 as stated: whenever parse_date_range returns a range, each endpoint
\* is (2000 + yy, m, dd) with m in 1..12 the calendar number of the month
\* abbreviation; a text with no such header gives None.
C16_MonthsInCalendar ==
    fpc = "done" =>
        /\ ret # <<>> =>
              /\ ret[1] = <<YearNumber(arg.yy1), CalendarNumber(arg.mon1), DayNumber(arg.day1)>>
              /\ ret[2] = <<YearNumber(arg.yy2), CalendarNumber(arg.mon2), 28>>
              /\ ret[1][2] \in 1..12 /\ ret[2][2] \in 1..12
        /\ ~HasRangeHeader => ret = <<>>

\* C16, amended: whenever parse_date_range returns a range, each endpoint is
\* (2000 + yy, m, dd) where m is the calendar number of the three letters
\* when they are a month abbreviation and 0 when they are not; a range is
\* returned exactly when the text holds a header of the shape; the header
\* OCT31/25-NOV28/25 gives ((2025, 10, 31), (2025, 11, 28)).
C16_MonthsOrZero ==
    fpc = "done" =>
        /\ ret # <<>> <=> HasRangeHeader
        /\ ret # <<>> =>
              /\ ret[1] = <<YearNumber(arg.yy1), CalendarNumber(arg.mon1), DayNumber(arg.day1)>>
              /\ ret[2] = <<YearNumber(arg.yy2), CalendarNumber(arg.mon2), 28>>
        /\ arg.text = <<"O", "C", "T", "3", "1", "/", "2", "5", "-", "N", "O", "V", "2", "8", "/", "2", "5">> \o <<NL>> =>
              ret = <<<<2025, 10, 31>>, <<2025, 11, 28>>>>

\* A header that crosses the year boundary, with a one-digit day and white
\* space after the month, has been parsed.
C16_Witness ==
    /\ fpc = "done"
    /\ arg.text = <<"S", "t", "a", "t", "e", "m", "e", "n", "t", " ", "F", "r", "o", "m", " ", "D", "E", "C", " ", "1", "/", "2", "5", "-", "J", "A", "N", "2", "8", "/", "2", "6">> \o <<NL>>
    /\ ret = <<<<2025, 12, 1>>, <<2026, 1, 28>>>>

\* ======================== parsers/td.py: choose_year and parse_date_token
\* Mutant: the start month itself already counts as the end year.
choose_year_inclusive(month, start, end) ==
    IF start[1] = end[1] THEN start[1]
    ELSE IF month <= start[2] THEN end[1] ELSE start[1]

\* Mutant: every token is given the header's start year.
choose_year_start_only(month, start, end) == start[1]

\* choose_year(month, start, end)
choose_year(month, start, end) ==
    IF start[1] = end[1] THEN start[1]
    ELSE IF month < start[2] THEN end[1] ELSE start[1]

\* parse_date_token(token, start, end): re.match(r"([A-Z]{3})\s*(\d{1,2})")
\* at the start of the token; the date in a one-element sequence, or <<>>.
parse_date_token(token, start, end) ==
    IF Len(token) < 3 \/ \E k \in 1..3 : ~IsUpperLetter(token[k]) THEN <<>>
    ELSE LET d == SkipSpace(token, 4)
             n == IF d + 1 <= Len(token) /\ IsDigit(token[d + 1]) THEN 2 ELSE 1
         IN  IF d > Len(token) \/ ~IsDigit(token[d]) THEN <<>>
             ELSE LET month == MONTH_MAP_get(SubSeq(token, 1, 3))
                      day == DigitsVal(SubSeq(token, d, d + n - 1))
                  IN  IF month = 0 THEN <<>>
                      ELSE LET y == choose_year(month, start, end)
                           IN  IF ValidDate(y, month, day) THEN <<<<y, month, day>>>>
                               ELSE <<>>

\* Header ranges as parse_date_range returns them: any start month (0 for an
\* unknown code), start and end years equal or not.
HeaderRanges ==
    {[start |-> <<sy, sm, 31>>, end |-> <<ey, em, 28>>] :
        sy \in {2025, 2026}, sm \in 0..12, ey \in {2025, 2026}, em \in {1, 11}}

\* Embedded date tokens of every month.
MonthDayTokens ==
    {[token |-> MONTH_MAP[m] \o s \o d, month |-> m, day |-> d] :
        m \in 1..12, s \in {<<>>, <<" ">>}, d \in {<<"0", "5">>, <<"5">>, <<"3", "1">>}}

DateTokenInputs ==
    {[token |-> t.token, month |-> t.month, day |-> t.day, start |-> h.start,
      end |-> h.end] : t \in MonthDayTokens, h \in HeaderRanges}

InitDateToken ==
    /\ WriteIdle
    /\ DriverIdle /\ ReconcileIdle /\ ParseFileIdle
    /\ fpc = "call" /\ arg \in DateTokenInputs /\ ret = <<>>

CallDateToken ==
    /\ fpc = "call" /\ arg \in DateTokenInputs
    /\ ret' = [year |-> choose_year(arg.month, arg.start, arg.end),
               date |-> parse_date_token(arg.token, arg.start, arg.end)]
    /\ fpc' = "done"
    /\ UNCHANGED <<arg, dvars, rvars, pvars, wvars>>

SpecDateToken == InitDateToken /\ [][CallDateToken]_vars

\* The end year for a month before the header's start month, the start year
\* otherwise.
YearByStartMonth == IF arg.month < arg.start[2] THEN arg.end[1] ELSE arg.start[1]

\* C17: for every month 1..12 and every header range, choose_year returns
\* the header's end year when the month is less than the header's start
\* month and the start year otherwise; under OCT31/25-NOV28/25 the token
\* NOV05 resolves to 2025-11-05.
C17_ChooseYear ==
    fpc = "done" =>
        /\ ret.year = YearByStartMonth
        /\ ret.date # <<>> =>
              /\ ret.date[1][1] = YearByStartMonth
              /\ ret.date[1][2] = arg.month
              /\ ret.date[1][3] = IF arg.day = <<"3", "1">> THEN 31 ELSE 5
        /\ (/\ arg.token = <<"N", "O", "V", "0", "5">>
            /\ arg.start = <<2025, 10, 31>> /\ arg.end = <<2025, 11, 28>>)
              => ret.date = <<<<2025, 11, 5>>>>

\* A January token under a header running from December 2025 into January
\* 2026 has been resolved to 2026.
C17_Witness ==
    /\ fpc = "done"
    /\ arg.token = <<"J", "A", "N", "0", "5">>
    /\ arg.start = <<2025, 12, 31>> /\ arg.end = <<2026, 1, 28>>
    /\ ret.year = 2026
    /\ ret.date = <<<<2026, 1, 5>>>>

\* ================================ parsers/td.py: parse_transaction_line
\* sub in s
Contains(s, sub) ==
    \E i \in 1..(Len(s) - Len(sub) + 1) : \A k \in 1..Len(sub) : s[i + k - 1] = sub[k]

\* " ".join(tokens)
RECURSIVE Join(_)
Join(tokens) ==
    IF tokens = <<>> THEN <<>>
    ELSE IF Len(tokens) = 1 THEN tokens[1]
    ELSE tokens[1] \o <<" ">> \o Join(Tail(tokens))

\* re.fullmatch(r"-?\d[\d,]*\.\d{2}", tok)
IsAmountToken(tok) ==
    LET t == IF tok # <<>> /\ tok[1] = "-" THEN Tail(tok) ELSE tok
    IN  /\ Len(t) >= 4
        /\ IsDigit(t[1])
        /\ \A k \in 2..(Len(t) - 3) : IsDigit(t[k]) \/ t[k] = ","
        /\ t[Len(t) - 2] = "."
        /\ IsDigit(t[Len(t) - 1]) /\ IsDigit(t[Len(t)])

\* split_amounts(tokens): <<description tokens, amount tokens>>, the amount
\* tokens being the trailing run of amount-shaped tokens.
split_amounts(tokens) ==
    LET n == Cardinality({k \in 1..Len(tokens) :
                             \A j \in k..Len(tokens) : IsAmountToken(tokens[j])})
    IN  <<SubSeq(tokens, 1, Len(tokens) - n),
          SubSeq(tokens, Len(tokens) - n + 1, Len(tokens))>>

\* normalize_amount(raw): float(raw.replace(",", "")) in cents, <<>> for None.
normalize_amount(raw) ==
    IF raw = <<>> THEN <<>>
    ELSE LET s == Remove(raw, {","})
         IN  IF s[1] = "-"
             THEN (IF float(Tail(s)) = <<>> THEN <<>> ELSE <<-float(Tail(s))[1]>>)
             ELSE float(s)

\* (JAN|...|DEC)\s?\d{1,2} matched at position i of the upper-cased line:
\* the length of the match, 0 for no match.
DateMatchAt(u, i) ==
    IF i + 3 > Len(u) \/ SubSeq(u, i, i + 2) \notin Range(MONTH_MAP) THEN 0
    ELSE LET d == IF u[i + 3] \in ReSpace /\ i + 4 <= Len(u) /\ IsDigit(u[i + 4])
                  THEN i + 4 ELSE i + 3
         IN  IF ~IsDigit(u[d]) THEN 0
             ELSE IF d + 1 <= Len(u) /\ IsDigit(u[d + 1]) THEN d + 2 - i ELSE d + 1 - i

\* Mutant: the markers are looked for in the line as written.
is_balance_line_as_written(line_clean) ==
    StartsWith(line_clean, <<"S", "T", "A", "R", "T", "I", "N", "G">>) \/ StartsWith(line_clean, <<"C", "L", "O", "S", "I", "N", "G">>)

\* Lines 112-114: the line is a starting- or closing-balance line.
is_balance_line(line_clean) ==
    LET upper == Upper(line_clean)
    IN  StartsWith(upper, <<"S", "T", "A", "R", "T", "I", "N", "G">>) \/ StartsWith(upper, <<"C", "L", "O", "S", "I", "N", "G">>)

\* Mutant: a withdrawal, when there is one, wins over the deposit.
amount_value_withdrawal_first(amounts) ==
    IF Len(amounts) >= 2
    THEN (IF amounts[1] # 0 THEN amounts[1] ELSE -amounts[2])
    ELSE amounts[1]

\* Lines 141-150: the ledger amount from the parsed amount run.
amount_value(amounts) ==
    IF Len(amounts) >= 2
    THEN LET withdrawal == amounts[1]
             deposit == amounts[2]
         IN  IF deposit # 0 THEN -deposit ELSE withdrawal
    ELSE amounts[1]

\* parse_transaction_line(line, start, end): the transaction in a
\* one-element sequence, or <<>> for None.
parse_transaction_line(line, start, end) ==
    LET line_clean == Strip(line, ReSpace)
        upper == Upper(line_clean)
        hits == {i \in 1..Len(upper) : DateMatchAt(upper, i) # 0}
    IN  IF line_clean = <<>> THEN <<>>
        ELSE IF is_balance_line(line_clean) THEN <<>>
        ELSE IF hits = {} THEN <<>>
        ELSE LET i == Least(hits)
                 date_token == SubSeq(upper, i, i + DateMatchAt(upper, i) - 1)
                 compact == Remove(date_token, {" "})
                 tokens == Split(line_clean)
                 found == {k \in 1..Len(tokens) : Contains(Upper(tokens[k]), compact)}
             IN  IF found = {} THEN <<>>
                 ELSE LET before_date == SubSeq(tokens, 1, Least(found) - 1)
                          description_tokens == split_amounts(before_date)[1]
                          amount_tokens == split_amounts(before_date)[2]
                          tx_date == parse_date_token(compact, start, end)
                          amounts == [k \in 1..Len(amount_tokens) |->
                                         normalize_amount(amount_tokens[k])]
                      IN  IF amount_tokens = <<>> THEN <<>>
                          ELSE IF tx_date = <<>> THEN <<>>
                          ELSE IF Join(description_tokens) = <<>> THEN <<>>
                          ELSE IF \E k \in 1..Len(amounts) : amounts[k] = <<>> THEN <<>>
                          ELSE <<[transaction_date |-> tx_date[1],
                                  description |-> Join(description_tokens),
                                  amount |-> amount_value([k \in 1..Len(amounts) |->
                                                              amounts[k][1]]),
                                  is_payment |-> Contains(upper, <<"P", "A", "Y", "M", "E", "N", "T">>)]>>

\* Amount tokens of the withdrawal and deposit columns.
ColumnTokens == {<<"0", ".", "0", "0">>, <<"1", "3", "3", ".", "6", "0">>, <<"1", ",", "2", "3", "4", ".", "5", "6">>, <<"-", "5", ".", "0", "0">>, <<"-", "0", ".", "0", "0">>}

\* What a line begins with: descriptions and balance markers.
Leads ==
    {<<"P", "A", "Y", "R", "O", "L", "L", " ", "C", "O">>, <<"S", "E", "N", "D", "E", "-", "T", "F", "R", " ", "*", "*", "*", "9", "c", "H">>, <<"R", "E", "S", "T", "A", "R", "T", "I", "N", "G", " ", "C", "O">>,
     <<"S", "T", "A", "R", "T", "I", "N", "G", "B", "A", "L", "A", "N", "C", "E">>, <<"C", "l", "o", "s", "i", "n", "g", " ", "b", "a", "l", "a", "n", "c", "e">>, <<" ", " ", "c", "l", "o", "s", "i", "n", "g", " ", "B", "a", "l", "a", "n", "c", "e">>}

\* Lines "<lead> <one or two amounts> <date> <balance>".
Lines ==
    {[line |-> l \o <<" ">> \o Join(r) \o <<" ">> \o d \o b, lead |-> l, run |-> r,
      date |-> d] :
        l \in Leads, r \in [1..1 -> ColumnTokens] \cup [1..2 -> ColumnTokens],
        d \in {<<"N", "O", "V", "0", "5">>, <<"N", "o", "v", "3">>}, b \in {<<>>, <<" ", "3", "0", "0", ",", "0", "0", "0", ".", "0", "0">>}}

InitLine ==
    /\ WriteIdle
    /\ DriverIdle /\ ReconcileIdle /\ ParseFileIdle
    /\ fpc = "call" /\ arg \in Lines /\ ret = <<>>

\* The header of the statement is OCT31/25-NOV28/25.
CallParseLine ==
    /\ fpc = "call" /\ arg \in Lines
    /\ ret' = parse_transaction_line(arg.line, <<2025, 10, 31>>, <<2025, 11, 28>>)
    /\ fpc' = "done"
    /\ UNCHANGED <<arg, dvars, rvars, pvars, wvars>>

SpecLine == InitLine /\ [][CallParseLine]_vars

\* The value of a column token, in cents.
Cents(tok) ==
    CASE tok = <<"1", "3", "3", ".", "6", "0">> -> 13360
      [] tok = <<"1", ",", "2", "3", "4", ".", "5", "6">> -> 123456
      [] tok = <<"-", "5", ".", "0", "0">> -> -500
      [] OTHER -> 0

\* The line begins with a balance marker, in any case, after trimming.
BalanceLead == arg.lead \in {<<"S", "T", "A", "R", "T", "I", "N", "G", "B", "A", "L", "A", "N", "C", "E">>, <<"C", "l", "o", "s", "i", "n", "g", " ", "b", "a", "l", "a", "n", "c", "e">>, <<" ", " ", "c", "l", "o", "s", "i", "n", "g", " ", "B", "a", "l", "a", "n", "c", "e">>}

\* C18 as stated: with two tokens (withdrawal, deposit) a non-zero deposit
\* gives a negative amount of the deposit's magnitude whatever the
\* withdrawal, a zero deposit gives the withdrawal, and a single token gives
\* its signed value.
C18_DepositIsNegative ==
    fpc = "done" /\ ~BalanceLead =>
        /\ ret # <<>>
        /\ Len(arg.run) = 2 /\ Cents(arg.run[2]) # 0 =>
              ret[1].amount < 0 /\ Abs(ret[1].amount) = Abs(Cents(arg.run[2]))
        /\ Len(arg.run) = 2 /\ Cents(arg.run[2]) = 0 => ret[1].amount = Cents(arg.run[1])
        /\ Len(arg.run) = 1 => ret[1].amount = Cents(arg.run[1])

\* C18, amended: with two tokens (withdrawal, deposit) a non-zero deposit
\* gives the deposit's value negated whatever the withdrawal (negative for a
\* deposit printed without a minus sign), a zero deposit gives the
\* withdrawal, and a single token gives its signed value.
C18_DepositIsNegated ==
    fpc = "done" /\ ~BalanceLead =>
        /\ ret # <<>>
        /\ Len(arg.run) = 2 /\ Cents(arg.run[2]) # 0 => ret[1].amount = -Cents(arg.run[2])
        /\ Len(arg.run) = 2 /\ Cents(arg.run[2]) = 0 => ret[1].amount = Cents(arg.run[1])
        /\ Len(arg.run) = 1 => ret[1].amount = Cents(arg.run[1])

\* "PAYROLL CO 133.60 1,234.56 NOV05 300,000.00": both columns filled, the
\* deposit wins.
C18_Witness ==
    /\ fpc = "done"
    /\ arg.line = <<"P", "A", "Y", "R", "O", "L", "L", " ", "C", "O", " ", "1", "3", "3", ".", "6", "0", " ", "1", ",", "2", "3", "4", ".", "5", "6", " ", "N", "O", "V", "0", "5", " ", "3", "0", "0", ",", "0", "0", "0", ".", "0", "0">>
    /\ ret # <<>>
    /\ ret[1].amount = -123456
    /\ ret[1].transaction_date = <<2025, 11, 5>>

\* C19: a line that begins, in any case and after trimming, with the
\* starting-balance or closing-balance marker gives no transaction, whatever
\* date and amounts it carries.
C19_BalanceLinesSkipped ==
    fpc = "done" /\ BalanceLead => ret = <<>>

\* A closing-balance line in mixed case, with an amount and a date, has been
\* turned down.
C19_Witness ==
    /\ fpc = "done"
    /\ arg.line = <<"C", "l", "o", "s", "i", "n", "g", " ", "b", "a", "l", "a", "n", "c", "e", " ", "1", "3", "3", ".", "6", "0", " ", "N", "O", "V", "0", "5", " ", "3", "0", "0", ",", "0", "0", "0", ".", "0", "0">>
    /\ ret = <<>>

\* ===================== can_parse of the two grammars on written-out page text
\* The marker phrases the two can_parse look for, character by character.
PhraseChars(p) ==
    CASE p = "DATE DU RELE" -> <<"D", "A", "T", "E", " ", "D", "U", " ", "R", "E", "L", "E">>
      [] p = "DESJARDINS" -> <<"D", "E", "S", "J", "A", "R", "D", "I", "N", "S">>
      [] p = "THETORONTO-DOMINIONBANK" -> <<"T", "H", "E", "T", "O", "R", "O", "N", "T", "O", "-", "D", "O", "M", "I", "N", "I", "O", "N", "B", "A", "N", "K">>
      [] p = "TORONTO-DOMINION BANK" -> <<"T", "O", "R", "O", "N", "T", "O", "-", "D", "O", "M", "I", "N", "I", "O", "N", " ", "B", "A", "N", "K">>
      [] p = "STATEMENT OFACCOUNT" -> <<"S", "T", "A", "T", "E", "M", "E", "N", "T", " ", "O", "F", "A", "C", "C", "O", "U", "N", "T">>
      [] p = "STATEMENT OF ACCOUNT" -> <<"S", "T", "A", "T", "E", "M", "E", "N", "T", " ", "O", "F", " ", "A", "C", "C", "O", "U", "N", "T">>
      [] p = "BRANCHNO." -> <<"B", "R", "A", "N", "C", "H", "N", "O", ".">>

MarkerPhrases ==
    {"DATE DU RELE", "DESJARDINS", "THETORONTO-DOMINIONBANK", "TORONTO-DOMINION BANK",
     "STATEMENT OFACCOUNT", "STATEMENT OF ACCOUNT", "BRANCHNO."}

\* text.upper() and the "in" tests: the marker phrases a page text contains.
MarkersIn(text) ==
    LET text_upper == Upper(text)
    IN  {p \in MarkerPhrases : Contains(text_upper, PhraseChars(p))}

\* Lines a first page may carry, in the order they are laid out.
MarkerLines ==
    <<"header", "brandA", "brandB", "brandB_tight", "statement", "statement_tight",
      "branch", "branch_spaced">>

MarkerLineText(l) ==
    CASE l = "header" -> <<"D", "a", "t", "e", " ", "d", "u", " ", "r", "e", "l", "e", "v", "é", " ", "J", "o", "u", "r", " ", "0", "5">>
      [] l = "brandA" -> <<"V", "i", "s", "a", " ", "D", "e", "s", "j", "a", "r", "d", "i", "n", "s">>
      [] l = "brandB" -> <<"T", "h", "e", " ", "T", "o", "r", "o", "n", "t", "o", "-", "D", "o", "m", "i", "n", "i", "o", "n", " ", "B", "a", "n", "k">>
      [] l = "brandB_tight" -> <<"T", "H", "E", "T", "O", "R", "O", "N", "T", "O", "-", "D", "O", "M", "I", "N", "I", "O", "N", "B", "A", "N", "K">>
      [] l = "statement" -> <<"S", "t", "a", "t", "e", "m", "e", "n", "t", " ", "o", "f", " ", "A", "c", "c", "o", "u", "n", "t">>
      [] l = "statement_tight" -> <<"S", "T", "A", "T", "E", "M", "E", "N", "T", " ", "O", "F", "A", "C", "C", "O", "U", "N", "T">>
      [] l = "branch" -> <<"B", "r", "a", "n", "c", "h", "N", "o", ".", " ", "1", "2", "3", "4">>
      [] l = "branch_spaced" -> <<"B", "r", "a", "n", "c", "h", " ", "N", "o", ".", " ", "1", "2", "3", "4">>

\* The page text made of the lines in ls.
RECURSIVE PageOf(_, _)
PageOf(ls, i) ==
    IF i > Len(MarkerLines) THEN <<>>
    ELSE (IF MarkerLines[i] \in ls THEN MarkerLineText(MarkerLines[i]) \o <<NL>> ELSE <<>>)
         \o PageOf(ls, i + 1)

\* A call can_parse(path, sniff): the file at the path (its first page made
\* of the lines in lines, when it opens and has a page), and the sniff the
\* caller passes: the one sniff_file makes of the file, none, or one whose
\* text was read earlier from a grammar A statement.
CanParseInputs ==
    {[path |-> n, lines |-> ls, opens |-> f[1], npages |-> f[2], sniffed |-> s] :
        n \in Names, ls \in SUBSET Range(MarkerLines),
        f \in {<<TRUE, 1>>, <<TRUE, 0>>, <<FALSE, 0>>},
        s \in {"sniff_file", "none", "earlier"}}

SniffPassed ==
    CASE arg.sniffed = "sniff_file" -> sniff_file(arg.path)
      [] arg.sniffed = "none" -> FileSniff(<<>>, <<>>)
      [] arg.sniffed = "earlier" ->
           FileSniff(DotPdf, <<MarkersIn(PageOf({"header", "brandA"}, 1))>>)

InitCanParse ==
    /\ WriteIdle
    /\ ReconcileIdle /\ ParseFileIdle
    /\ fpc = "call" /\ arg \in CanParseInputs /\ ret = <<>>
    /\ dir = [n \in {arg.path} |->
                 Entry(TRUE, arg.opens, arg.npages, MarkersIn(PageOf(arg.lines, 1)),
                       TRUE, 0, 0)]
    /\ pc = "idle" /\ listing = <<>> /\ patterns = <<>> /\ bank = ""
    /\ files = <<>> /\ pos = 0 /\ unmatched = <<>> /\ dfs = <<>> /\ combined = <<>>
    /\ error = <<>> /\ calls = <<>>

CallCanParse ==
    /\ fpc = "call" /\ arg \in CanParseInputs
    /\ ret' = [desjardins |-> DesjardinsCanParse(arg.path, SniffPassed),
               td |-> TDCanParse(arg.path, SniffPassed)]
    /\ fpc' = "done"
    /\ UNCHANGED <<arg, dvars, rvars, pvars, wvars>>

SpecCanParse == InitCanParse /\ [][CallCanParse]_vars

\* The path ends in .pdf, in any case.
PdfPath == arg.path \in {<<"B", ".", "P", "D", "F">>, <<"a", ".", "p", "d", "f">>}

\* The lines of the text can_parse has to go by: the sniff's text when the
\* sniff has one, else the first page of the file; Unavailable when neither
\* can be had.
SniffHasText ==
    \/ arg.sniffed = "earlier"
    \/ arg.sniffed = "sniff_file" /\ PdfPath /\ arg.opens /\ arg.npages > 0

Unavailable == ~SniffHasText /\ (~arg.opens \/ arg.npages = 0)

LinesSeen == IF arg.sniffed = "earlier" THEN {"header", "brandA"} ELSE arg.lines

\* C20: can_parse is true exactly when the path ends in .pdf (in any case)
\* and all the grammar's markers occur in the first-page text, compared
\* without regard to case (grammar A: header phrase and brand; grammar B:
\* brand, statement-of-account phrase, branch-number marker); the sniff's text
\* is used when present, and the answer is false when no text can be had.
C20_CanParse ==
    fpc = "done" =>
        /\ ret.desjardins <=>
              /\ PdfPath /\ ~Unavailable
              /\ "header" \in LinesSeen /\ "brandA" \in LinesSeen
        /\ ret.td <=>
              /\ PdfPath /\ ~Unavailable
              /\ "brandB" \in LinesSeen \/ "brandB_tight" \in LinesSeen
              /\ "statement" \in LinesSeen \/ "statement_tight" \in LinesSeen
              /\ "branch" \in LinesSeen

\* B.PDF, read from the file for want of a sniff, carries grammar B's three
\* markers in mixed case and is accepted by grammar B alone.
C20_Witness ==
    /\ fpc = "done"
    /\ arg.path = <<"B", ".", "P", "D", "F">>
    /\ arg.sniffed = "none" /\ arg.opens /\ arg.npages = 1
    /\ arg.lines = {"brandA", "brandB", "statement", "branch"}
    /\ ret.td /\ ~ret.desjardins

\* ================================================ parsers/driver.py: sniff_file
\* The page numbers whose text sniff_file extracts (line 18: pages[0] only).
sniff_pages_read(path) ==
    IF Lower(splitext_ext(path)) = DotPdf /\ dir[path].opens /\ dir[path].npages > 0
    THEN {1} ELSE {}

\* Paths handed to sniff_file.
SniffNames ==
    Names \cup {<<".", "p", "d", "f">>, <<"a", ".", "b", ".", "P", "d", "f">>, <<"a", "p", "d", "f">>, <<"a", ".", "p", "d", "f", ".", "t", "x", "t">>}

InitSniff ==
    /\ WriteIdle
    /\ ReconcileIdle /\ ParseFileIdle
    /\ fpc = "call" /\ ret = <<>>
    /\ \E n \in SniffNames, e \in Contents :
          /\ arg = [path |-> n]
          /\ dir = [m \in {n} |-> e]
    /\ pc = "idle" /\ listing = <<>> /\ patterns = <<>> /\ bank = ""
    /\ files = <<>> /\ pos = 0 /\ unmatched = <<>> /\ dfs = <<>> /\ combined = <<>>
    /\ error = <<>> /\ calls = <<>>

CallSniff ==
    /\ fpc = "call" /\ arg.path \in SniffNames
    /\ ret' = [sniff |-> sniff_file(arg.path), pages_read |-> sniff_pages_read(arg.path)]
    /\ fpc' = "done"
    /\ UNCHANGED <<arg, dvars, rvars, pvars, wvars>>

SpecSniff == InitSniff /\ [][CallSniff]_vars

\* The lower-cased extension of each path.
ExtensionOf(n) ==
    CASE n \in {<<"B", ".", "P", "D", "F">>, <<"a", ".", "p", "d", "f">>, <<"a", ".", "b", ".", "P", "d", "f">>} -> <<".", "p", "d", "f">>
      [] n \in {<<"b", ".", "t", "x", "t">>, <<"a", ".", "p", "d", "f", ".", "t", "x", "t">>} -> <<".", "t", "x", "t">>
      [] OTHER -> <<>>

\* A PDF by extension that opens and has a page.
ReadablePdf ==
    /\ ExtensionOf(arg.path) = <<".", "p", "d", "f">>
    /\ dir[arg.path].opens /\ dir[arg.path].npages >= 1

\* C21: sniff_file returns a FileSniff for every path: the extension is the
\* lower-cased file extension, first_page_text is the first page's text for a
\* readable PDF with at least one page and absent for a non-PDF, a zero-page
\* PDF or an unreadable file; no page after the first is read.
C21_SniffFile ==
    fpc = "done" =>
        /\ ret.sniff.extension = ExtensionOf(arg.path)
        /\ ret.sniff.first_page_text =
              IF ReadablePdf THEN <<dir[arg.path].text>> ELSE <<>>
        /\ ret.pages_read \subseteq {1}

\* a.b.Pdf, a two-page grammar A statement, has been sniffed.
C21_Witness ==
    /\ fpc = "done"
    /\ arg.path = <<"a", ".", "b", ".", "P", "d", "f">>
    /\ dir[arg.path].npages = 2
    /\ ret.sniff = FileSniff(<<".", "p", "d", "f">>, <<DesjMarkers>>)
    /\ ret.pages_read = {1}

\* ================================================= parsers/base.py: write_csv
\* At most this many data rows in the frame written.
MaxCsvRows == 4

\* The path written to.
OutputCsv == <<"o", "u", "t", ".", "c", "s", "v">>

\* Mutant: the frame is written straight to the final path.
tmp_path_is_output(output_csv) == output_csv

\* tmp_path = f"{output_csv}.tmp"
tmp_path(output_csv) == output_csv \o <<".", "t", "m", "p">>

\* The lines df.to_csv writes: the header, then one line per row.
CsvLines(n) == [i \in 1..(n + 1) |-> IF i = 1 THEN "header" ELSE "row"]

\* What the final path held before the call: nothing, or an earlier
\* complete file.
PreviousContent == {<<>>, <<<<"header", "old row">>>>}

\* What the temporary path held before the call: nothing, or the remains of
\* an interrupted write.
StaleContent == {<<>>, <<<<"header", "stale row">>>>}

InitWrite ==
    /\ DriverIdle /\ ReconcileIdle /\ ParseFileIdle
    /\ fpc = "idle" /\ ret = <<>>
    /\ \E n \in 0..MaxCsvRows, old \in PreviousContent, stale \in StaleContent :
          /\ arg = [df |-> CsvLines(n), previous |-> old]
          /\ disk = [p \in {OutputCsv, tmp_path(OutputCsv)} |->
                        IF p = OutputCsv THEN old ELSE stale]
    /\ wpc = "open"

\* df.to_csv(tmp_path): the file is created, or truncated.
ToCsvOpen ==
    /\ wpc = "open"
    /\ disk' = [disk EXCEPT ![tmp_path(OutputCsv)] = <<<<>>>>]
    /\ wpc' = "write"
    /\ UNCHANGED <<dvars, rvars, fvars, pvars>>

\* df.to_csv(tmp_path): the next line reaches the file.
ToCsvWrite ==
    /\ wpc = "write"
    /\ Len(disk[tmp_path(OutputCsv)][1]) < Len(arg.df)
    /\ disk' = [disk EXCEPT ![tmp_path(OutputCsv)] =
                   <<@[1] \o <<arg.df[Len(@[1]) + 1]>>>>]
    /\ UNCHANGED <<wpc, dvars, rvars, fvars, pvars>>

\* df.to_csv(tmp_path) returns: every line is written and the file closed.
ToCsvClose ==
    /\ wpc = "write"
    /\ Len(disk[tmp_path(OutputCsv)][1]) = Len(arg.df)
    /\ wpc' = "replace"
    /\ UNCHANGED <<disk, dvars, rvars, fvars, pvars>>

\* os.replace(tmp_path, output_csv): one atomic rename.
OsReplace ==
    /\ wpc = "replace"
    /\ disk' = [p \in DOMAIN disk |->
                   IF p = OutputCsv THEN disk[tmp_path(OutputCsv)]
                   ELSE IF p = tmp_path(OutputCsv) THEN <<>>
                   ELSE disk[p]]
    /\ wpc' = "done"
    /\ UNCHANGED <<dvars, rvars, fvars, pvars>>

\* The process dies between two steps; the files stay as they are.
Crash ==
    /\ wpc \in {"open", "write", "replace"}
    /\ wpc' = "crashed"
    /\ UNCHANGED <<disk, dvars, rvars, fvars, pvars>>

NextWrite == ToCsvOpen \/ ToCsvWrite \/ ToCsvClose \/ OsReplace \/ Crash

SpecWrite == InitWrite /\ [][NextWrite]_vars

\* C22: at every step of write_csv, a crash between two steps included, the
\* final path holds its previous complete content (nothing if it did not
\* exist) or the complete new content; the new content is there once the
\* call has returned and never before the rename.
C22_FinalPathAtomic ==
    wpc # "idle" =>
        /\ disk[OutputCsv] \in {arg.previous, <<arg.df>>}
        /\ wpc = "done" => disk[OutputCsv] = <<arg.df>>
        /\ wpc \in {"open", "write", "replace"} => disk[OutputCsv] = arg.previous

\* The process died with two of four lines in the temporary file, and the
\* final path still holds the earlier file.
C22_Witness ==
    /\ wpc = "crashed"
    /\ Len(arg.df) = 4
    /\ disk[tmp_path(OutputCsv)] = <<<<"header", "row">>>>
    /\ disk[OutputCsv] = <<<<"header", "old row">>>>

\* ================================= parse_statements: a failure ends the batch
\* Resolving or parsing file n raises: several grammars accept it and none is
\* forced, the forced grammar rejects it, or the grammar it goes to cannot
\* read its pages.
Failing(n) ==
    \/ ~GrammarForced /\ Cardinality(Accepting(n)) > 1
    \/ GrammarForced /\ bank \notin Accepting(n)
    \/ /\ ~dir[n].opens \/ ~dir[n].body_ok
       /\ IF GrammarForced THEN bank \in Accepting(n) ELSE Cardinality(Accepting(n)) = 1

\* C23: if resolving or parsing the k-th file raises (several grammars
\* accept it, the forced grammar rejects it, or parse_file fails, which is
\* re-raised as an error naming the file), parse_statements stops there with
\* that error: no later file is sniffed, classified or parsed, and no ledger
\* and no unmatched list is returned, whatever rows the earlier files gave.
C23_ErrorEndsBatch ==
    /\ \A k \in 1..Len(files) :
          (Handled(k) /\ Failing(files[k])) =>
              /\ RaisedAt(k)
              /\ error[1].type = "RuntimeError"
              /\ error[1].msg = (IF ~GrammarForced /\ Cardinality(Accepting(files[k])) > 1
                                 THEN "Multiple parsers match file"
                                 ELSE IF GrammarForced /\ bank \notin Accepting(files[k])
                                 THEN "Forced parser cannot parse file"
                                 ELSE "Failed to read")
    /\ (pc = "raised" /\ error[1].type = "RuntimeError") =>
          /\ pos < Len(files)
          /\ error[1].file = files[pos + 1]
          /\ Failing(files[pos + 1])
          /\ \A j \in 1..pos : ~Failing(files[j])
          /\ \A i \in 1..Len(calls) : \E j \in 1..(pos + 1) : calls[i].path = files[j]
          /\ combined = <<>>
    /\ pc = "returned" => \A k \in 1..Len(files) : ~Failing(files[k])

\* The first of two files could not be read by its grammar: the second,
\* which a grammar accepts, has not been touched.
C23_Witness ==
    /\ pc = "raised" /\ pos = 0 /\ Len(files) = 2
    /\ error[1].msg = "Failed to read" /\ error[1].file = files[1]
    /\ Accepting(files[2]) # {}
    /\ \A i \in 1..Len(calls) : calls[i].path = files[1]
    /\ \E i \in 1..Len(calls) : calls[i].op = "parse_file"

\* ===================== analyse.py, main: drop_payments, then reconciliation
\* The rows of a raw ledger: a description, an amount in cents, and the
\* is_payment cell when the ledger has the column.
\* Purchases and credits of 1.00 at one store, and credits at another.
LedgerRowKinds == ({"STORE A"} \X {-100, 100}) \cup {<<"STORE B", -100>>}

RawLedgers ==
    UNION {{[columns |-> {"description", "amount", "is_payment"},
             data |-> [i \in 1..n |-> [idx |-> i - 1, description |-> b[i][1][1],
                                       amount |-> b[i][1][2], is_payment |-> b[i][2]]]] :
              b \in [1..n -> LedgerRowKinds \X PaymentCells]}
           : n \in 0..MaxLedger}
    \cup
    UNION {{[columns |-> {"description", "amount"},
             data |-> [i \in 1..n |-> [idx |-> i - 1, description |-> b[i][1],
                                       amount |-> b[i][2]]]] :
              b \in [1..n -> LedgerRowKinds]}
           : n \in 0..MaxLedger}

InitAnalyse ==
    /\ DriverIdle /\ ReconcileIdle /\ ParseFileIdle /\ WriteIdle
    /\ fpc = "call" /\ arg \in RawLedgers /\ ret = <<>>

\* main: df_no_payments, removed_payments = drop_payments(df_raw), and
\* reconcile_reimbursements(df_no_payments) takes its copy; the tolerance is
\* the default, one cent.
MainDropPayments ==
    /\ fpc = "call" /\ rpc = "idle" /\ arg \in RawLedgers
    /\ ret' = drop_payments(arg)
    /\ fpc' = "done"
    /\ df' = ret'.df.data
    /\ tolerance' = 1
    /\ rpc' = "credits"
    /\ UNCHANGED <<arg, to_drop, cpos, match_idx, out, removed>>
    /\ UNCHANGED <<dvars, pvars, wvars>>

NextAnalyse == MainDropPayments \/ ReconcileCredit \/ ReconcileReturn

SpecAnalyse == InitAnalyse /\ [][NextAnalyse]_vars

\* s is t with some rows taken out: the rows of s are rows of t, whole, in
\* the order they have in t.
RECURSIVE IsSubsequence(_, _)
IsSubsequence(s, t) ==
    IF s = <<>> THEN TRUE
    ELSE IF t = <<>> THEN FALSE
    ELSE IF Head(s) = Head(t) THEN IsSubsequence(Tail(s), Tail(t))
    ELSE IsSubsequence(s, Tail(t))

\* C24: the Reconciler only removes rows: what drop_payments and
\* reconcile_reimbursements return are order-preserving subsequences of what
\* they were given, each surviving row with every field as it was, and the
\* ledger passed in is not modified.
C24_OnlyRemovesRows ==
    /\ [](fpc = "done" =>
             /\ IsSubsequence(ret.df.data, arg.data)
             /\ ret.df.columns = arg.columns)
    /\ [](rpc = "done" => IsSubsequence(out, ret.df.data))
    /\ [][/\ arg' = arg
          /\ fpc = "done" => ret' = ret]_vars

\* Of a payment, a debit with a missing is_payment cell and a credit, the
\* debit alone is left, its cell still missing.
C24_Witness ==
    /\ rpc = "done"
    /\ Len(arg.data) = 3 /\ "is_payment" \in arg.columns
    /\ arg.data[1].is_payment = "True"
    /\ arg.data[2].is_payment = "NaN" /\ arg.data[2].amount = 100
    /\ arg.data[3].amount = -100 /\ arg.data[3].description # arg.data[2].description
    /\ Len(ret.df.data) = 2
    /\ out = <<arg.data[2]>>

\* The rows of the raw ledger that are no payments, by sign.
PlainDebits == {i \in (1..Len(arg.data)) \ TruePositions : arg.data[i].amount > 0}

PlainCredits == {i \in (1..Len(arg.data)) \ TruePositions : arg.data[i].amount < 0}

\* C25: the payment drop is complete before reconciliation starts: a row
\* flagged is_payment is no credit and no debit candidate, is never matched
\* or dropped by the reconciliation, never makes a debit that is no payment
\* disappear, and is counted in the payment count only.
C25_PaymentsLeaveFirst ==
    rpc # "idle" =>
        /\ fpc = "done"
        /\ ret.removed = Cardinality(TruePositions)
        /\ \A i \in TruePositions :
              /\ \A k \in 1..Len(df) : df[k].idx # arg.data[i].idx
              /\ arg.data[i].idx \notin to_drop
              /\ match_idx # <<arg.data[i].idx>>
        /\ LET gone == {d \in PlainDebits : arg.data[d].idx \in to_drop}
               used == {c \in PlainCredits : arg.data[c].idx \in to_drop}
           IN  /\ \E f \in [gone -> used] :
                     /\ \A d, e \in gone : d # e => f[d] # f[e]
                     /\ \A d \in gone :
                           /\ arg.data[d].description = arg.data[f[d]].description
                           /\ Abs(arg.data[d].amount + arg.data[f[d]].amount) <= 1
               /\ rpc = "done" =>
                     /\ removed = Cardinality(gone) + Cardinality(used)
                     /\ ret.removed + removed + Len(out) = Len(arg.data)

\* A payment of 1.00 to STORE A stands before a purchase of 1.00 at STORE A:
\* the payment is counted as a payment and the purchase stays.
C25_Witness ==
    /\ rpc = "done"
    /\ Len(arg.data) = 2 /\ "is_payment" \in arg.columns
    /\ arg.data[1] = [idx |-> 0, description |-> "STORE A", amount |-> -100,
                      is_payment |-> "True"]
    /\ arg.data[2] = [idx |-> 1, description |-> "STORE A", amount |-> 100,
                      is_payment |-> "False"]
    /\ ret.removed = 1 /\ removed = 0
    /\ out = <<arg.data[2]>>

\* ========================= parsers/desjardins.py: parse_page_transactions
\* text.splitlines()
RECURSIVE splitlines(_)
splitlines(t) ==
    IF t = <<>> THEN <<>>
    ELSE LET nl == {i \in 1..Len(t) : t[i] = NL}
         IN  IF nl = {} THEN <<t>>
             ELSE <<SubSeq(t, 1, Least(nl) - 1)>>
                      \o splitlines(SubSeq(t, Least(nl) + 1, Len(t)))

\* \d{2} \d{2} at position i
DayMonthAt(l, i) ==
    /\ i + 4 <= Len(l)
    /\ IsDigit(l[i]) /\ IsDigit(l[i + 1]) /\ l[i + 2] = " "
    /\ IsDigit(l[i + 3]) /\ IsDigit(l[i + 4])

\* TX_LINE_RE.match(line): the groups in a one-element sequence, or <<>>.
TX_LINE_RE_match(line) ==
    IF ~DayMonthAt(line, 1) THEN <<>>
    ELSE LET p == SkipSpace(line, 6)
         IN  IF p = 6 \/ ~DayMonthAt(line, p) THEN <<>>
             ELSE LET s == SkipSpace(line, p + 5)
                      r == IF s > Len(line) THEN Len(line) ELSE s
                  IN  IF r <= p + 5 THEN <<>>
                      ELSE <<[tx |-> SubSeq(line, 1, 5),
                              posted |-> SubSeq(line, p, p + 4),
                              rest |-> SubSeq(line, r, Len(line))]>>

\* [\d\s]* from position j: the first position it cannot take.
RunEnd(s, j) ==
    IF \E p \in j..Len(s) : ~IsDigit(s[p]) /\ s[p] \notin ReSpace
    THEN Least({p \in j..Len(s) : ~IsDigit(s[p]) /\ s[p] \notin ReSpace})
    ELSE Len(s) + 1

\* \s*$ from position p
TrailOnly(s, p) == \A q \in p..Len(s) : s[q] \in ReSpace

\* AMOUNT_TRAIL_RE matched at position i of r: the last position of the
\* amount group, 0 for no match.
AmountEndAt(r, i) ==
    LET d == IF r[i] = "-" THEN i + 1 ELSE i
        j == RunEnd(r, d + 1)
        k == RunEnd(r, i + 2)
    IN  IF /\ d <= Len(r) /\ IsDigit(r[d])
           /\ j + 2 <= Len(r) /\ r[j] = "," /\ IsDigit(r[j + 1]) /\ IsDigit(r[j + 2])
           /\ j + 4 <= Len(r) /\ r[j + 3] = "C" /\ r[j + 4] = "R" /\ TrailOnly(r, j + 5)
        THEN j + 4
        ELSE IF /\ d <= Len(r) /\ IsDigit(r[d])
                /\ j + 2 <= Len(r) /\ r[j] = "," /\ IsDigit(r[j + 1]) /\ IsDigit(r[j + 2])
                /\ TrailOnly(r, j + 3)
        THEN j + 2
        ELSE IF /\ d <= Len(r) /\ IsDigit(r[d])
                /\ j + 1 <= Len(r) /\ r[j] = "C" /\ r[j + 1] = "R" /\ TrailOnly(r, j + 2)
        THEN j + 1
        ELSE IF /\ r[i] = "(" /\ i + 1 <= Len(r) /\ IsDigit(r[i + 1])
                /\ k + 3 <= Len(r) /\ r[k] = "," /\ IsDigit(r[k + 1]) /\ IsDigit(r[k + 2])
                /\ r[k + 3] = ")" /\ TrailOnly(r, k + 4)
        THEN k + 3
        ELSE 0

\* AMOUNT_TRAIL_RE.search(rest): the leftmost match, or <<>>.
AMOUNT_TRAIL_RE_search(r) ==
    LET hits == {i \in 1..Len(r) : AmountEndAt(r, i) # 0}
    IN  IF hits = {} THEN <<>>
        ELSE <<[start |-> Least(hits),
                amount |-> SubSeq(r, Least(hits), AmountEndAt(r, Least(hits)))]>>

\* PERCENT_TRAIL_RE matched at position p of d
PercentAt(d, p) ==
    LET q == SkipSpace(d, p)
        nd == {e \in q..Len(d) : ~IsDigit(d[e])}
        e == IF nd = {} THEN Len(d) + 1 ELSE Least(nd)
    IN  /\ e > q /\ e + 2 <= Len(d)
        /\ d[e] = "," /\ IsDigit(d[e + 1]) /\ IsDigit(d[e + 2])
        /\ SkipSpace(d, e + 3) = Len(d) /\ d[Len(d)] = "%"

\* Mutant: the annotation is left in the description.
percent_strip_none(desc_raw) == desc_raw

\* re.sub(PERCENT_TRAIL_RE, "", desc_raw)
percent_strip(desc_raw) ==
    LET hits == {p \in 1..Len(desc_raw) : PercentAt(desc_raw, p)}
    IN  IF hits = {} THEN desc_raw ELSE SubSeq(desc_raw, 1, Least(hits) - 1)

\* re.sub(r"\s{2,}", " ", desc)
RECURSIVE collapse_spaces(_)
collapse_spaces(s) ==
    IF s = <<>> THEN <<>>
    ELSE IF Head(s) \in ReSpace /\ Len(s) >= 2 /\ s[2] \in ReSpace
         THEN <<" ">> \o collapse_spaces(LStrip(s, ReSpace))
    ELSE <<Head(s)>> \o collapse_spaces(Tail(s))

\* Lines 132-152: the rows one line gives, none or one.
PageRow(line) ==
    LET m == TX_LINE_RE_match(Strip(line, ReSpace))
    IN  IF m = <<>> THEN <<>>
        ELSE LET rest == m[1].rest
                 m_amt == AMOUNT_TRAIL_RE_search(rest)
             IN  IF m_amt = <<>> THEN <<>>
                 ELSE LET desc_raw == RStrip(SubSeq(rest, 1, m_amt[1].start - 1), ReSpace)
                          desc == RStrip(percent_strip(desc_raw), ReSpace)
                      IN  <<[transaction_date_raw |-> m[1].tx,
                             posted_date_raw |-> m[1].posted,
                             description_raw |-> desc_raw,
                             description |-> collapse_spaces(desc),
                             amount_raw |-> m_amt[1].amount]>>

\* parse_page_transactions on the text of a page
parse_page_transactions(text) ==
    LET ls == splitlines(text) IN Concat([i \in 1..Len(ls) |-> PageRow(ls[i])])

\* What a transaction line is made of: the two dates, the merchant text, the
\* rate annotation (none, or one with the white space before it), the white
\* space before the amount, and the amount token.
DatePairs == {<<"0", "1", " ", "0", "6", " ", "0", "2", " ", "0", "6">>, <<"0", "1", " ", "0", "6", " ", " ", "0", "2", " ", "0", "6">>}

MerchantTexts ==
    {<<"S", "T", "O", "R", "E", " ", "A", "B", "C">>, <<"S", "T", "O", "R", "E", " ", " ", "A", "B", "C">>, <<"Z", "E", "H", "R", "S", " ", "#", "5", "2", "9", " ", "O", "N">>, <<"S", "T", "O", "R", "E", " ", "1", "2", "3", "4">>, <<"L", "O", "T", " ", "7">>}

RateNotes == {<<>>, <<" ", "3", ",", "0", "0", " ", "%">>, <<" ", "1", ",", "5", "0", "%">>, <<" ", " ", "1", "2", ",", "5", "0", " ", " ", "%">>}

TrailingAmounts == {<<"9", "0", ",", "4", "5">>, <<"1", "2", ",", "3", "4", "C", "R">>, <<"(", "4", "5", ",", "6", "7", ")">>, <<"1", " ", "2", "3", "4", ",", "5", "6">>, <<"-", "0", ",", "4", "5">>, <<"1", "2", "C", "R">>}

\* Pages: the line alone, under a column header, or followed by another
\* transaction line.
PageInputs ==
    {[page |-> (IF h THEN <<"D", "a", "t", "e", " ", "D", "e", "s", "c", "r", "i", "p", "t", "i", "o", "n", " ", "M", "o", "n", "t", "a", "n", "t">> \o <<NL>> ELSE <<>>)
                  \o d \o <<" ">> \o t \o n \o g \o a
                  \o (IF m THEN <<NL>> \o <<"0", "2", " ", "0", "6", " ", "0", "3", " ", "0", "6", " ", "T", "H", "E", " ", "H", "O", "M", "E", " ", "D", "E", "P", "O", "T", " ", "1", ",", "5", "0", " ", "%", " ", "5", "7", ",", "6", "3">>
                      ELSE <<>>),
      dates |-> d, text |-> t, note |-> n, amount |-> a, more |-> m] :
        h \in BOOLEAN, d \in DatePairs, t \in MerchantTexts, n \in RateNotes,
        g \in {<<" ">>, <<" ", " ">>}, a \in TrailingAmounts, m \in BOOLEAN}

InitPage ==
    /\ DriverIdle /\ ReconcileIdle /\ ParseFileIdle /\ WriteIdle
    /\ fpc = "call" /\ arg \in PageInputs /\ ret = <<>>

CallParsePage ==
    /\ fpc = "call" /\ arg \in PageInputs
    /\ ret' = parse_page_transactions(arg.page)
    /\ fpc' = "done"
    /\ UNCHANGED <<arg, dvars, rvars, pvars, wvars>>

SpecPage == InitPage /\ [][CallParsePage]_vars

\* The merchant text with its runs of blanks made one blank.
Collapsed(t) == IF t = <<"S", "T", "O", "R", "E", " ", " ", "A", "B", "C">> THEN <<"S", "T", "O", "R", "E", " ", "A", "B", "C">> ELSE t

\* C26: for a line 'DD MM DD MM <text> <rate> % <amount>' the row has
\* amount_raw equal to the trailing amount token as written (CR suffix and
\* parentheses included), description equal to <text> without the rate
\* annotation and with runs of white space collapsed, and description_raw
\* still holding the annotation: only what stands before the amount is
\* stripped.
C26_PercentAnnotationStripped ==
    fpc = "done" /\ arg.note # <<>> =>
        /\ Len(ret) = IF arg.more THEN 2 ELSE 1
        /\ ret[1].transaction_date_raw = <<"0", "1", " ", "0", "6">>
        /\ ret[1].posted_date_raw = <<"0", "2", " ", "0", "6">>
        /\ ret[1].amount_raw = arg.amount
        /\ ret[1].description = Collapsed(arg.text)
        /\ ret[1].description_raw = arg.text \o arg.note

\* "01 06  02 06 STORE  ABC  12,50  %  12,34CR"
C26_Witness ==
    /\ fpc = "done"
    /\ arg.page = <<"0", "1", " ", "0", "6", " ", " ", "0", "2", " ", "0", "6", " ", "S", "T", "O", "R", "E", " ", " ", "A", "B", "C", " ", " ", "1", "2", ",", "5", "0", " ", " ", "%", " ", " ", "1", "2", ",", "3", "4", "C", "R">>
    /\ ret = <<[transaction_date_raw |-> <<"0", "1", " ", "0", "6">>,
                posted_date_raw |-> <<"0", "2", " ", "0", "6">>,
                description_raw |-> <<"S", "T", "O", "R", "E", " ", " ", "A", "B", "C", " ", " ", "1", "2", ",", "5", "0", " ", " ", "%">>,
                description |-> <<"S", "T", "O", "R", "E", " ", "A", "B", "C">>,
                amount_raw |-> <<"1", "2", ",", "3", "4", "C", "R">>]>>

\* C28: amount_raw is the line's final amount token only: when the
\* description ends in a group of digits that a blank separates from the
\* amount, with no rate annotation between them, the digits stay in the
\* description and are not taken into the amount.
C28_DigitsStayInDescription ==
    fpc = "done" /\ arg.note = <<>> =>
        /\ Len(ret) = IF arg.more THEN 2 ELSE 1
        /\ ret[1].amount_raw = arg.amount
        /\ ret[1].description = Collapsed(arg.text)

\* ============================ parse_statements: where each file ends up
\* How often file n stands in the unmatched list.
TimesUnmatched(n) == Cardinality({i \in 1..Len(unmatched) : unmatched[i] = n})

\* C27: when parse_statements returns, every eligible file is either in the
\* unmatched list, once, and was never parsed, or was parsed: parse_file was
\* called for it exactly once, by a grammar that had been asked and had
\* accepted it, and it is not in the unmatched list even when it gave no
\* row.  parse_file is never called on a grammar that rejected the file.
C27_EachFileOnce ==
    /\ \A i \in 1..Len(calls) :
          calls[i].op = "parse_file" =>
              /\ calls[i].parser \in Accepting(calls[i].path)
              /\ \E j \in 1..(i - 1) :
                    /\ calls[j].op = "can_parse"
                    /\ calls[j].parser = calls[i].parser
                    /\ calls[j].path = calls[i].path
    /\ pc = "returned" =>
          /\ Range(unmatched) \subseteq Eligible
          /\ \A i \in 1..Len(calls) : calls[i].path \in Eligible
          /\ \A n \in Eligible :
                \/ TimesUnmatched(n) = 1 /\ ParseCalls(n) = {}
                \/ TimesUnmatched(n) = 0 /\ Cardinality(ParseCalls(n)) = 1

\* A statement that gave no row was parsed once and is not reported; the
\* other file of the batch is.
C27_Witness ==
    /\ pc = "returned" /\ Len(files) = 2
    /\ \E n \in Eligible :
          /\ Cardinality(ParseCalls(n)) = 1
          /\ RowsOf(n) = {}
          /\ TimesUnmatched(n) = 0
    /\ Len(unmatched) = 1
    /\ combined = <<>>

\* ========== parsers/td.py: parse_transaction_line, the date token's spelling
\* The same transaction line written twice: with the day set apart from the
\* month by one blank, and with the two run together.
SpacedLines ==
    {[spaced |-> l \o <<" ">> \o Join(r) \o <<" ">> \o m \o <<" ">> \o d \o b,
      tight |-> l \o <<" ">> \o Join(r) \o <<" ">> \o m \o d \o b,
      lead |-> l, run |-> r] :
        l \in {<<"D", "E", "S", "C">>, <<"P", "A", "Y", "R", "O", "L", "L", " ", "C", "O">>, <<"S", "E", "N", "D", "E", "-", "T", "F", "R", " ", "*", "*", "*", "9", "c", "H">>},
        r \in [1..1 -> ColumnTokens] \cup [1..2 -> ColumnTokens],
        m \in {<<"N", "O", "V">>, <<"N", "o", "v">>}, d \in {<<"0", "5">>, <<"5">>},
        b \in {<<>>, <<" ", "3", "0", "0", ",", "0", "0", "0", ".", "0", "0">>}}

InitSpaced ==
    /\ DriverIdle /\ ReconcileIdle /\ ParseFileIdle /\ WriteIdle
    /\ fpc = "call" /\ arg \in SpacedLines /\ ret = <<>>

\* Both spellings are parsed under the header OCT31/25-NOV28/25.
CallParseSpaced ==
    /\ fpc = "call" /\ arg \in SpacedLines
    /\ ret' = [spaced |-> parse_transaction_line(arg.spaced, <<2025, 10, 31>>,
                                                 <<2025, 11, 28>>),
               tight |-> parse_transaction_line(arg.tight, <<2025, 10, 31>>,
                                                <<2025, 11, 28>>)]
    /\ fpc' = "done"
    /\ UNCHANGED <<arg, dvars, rvars, pvars, wvars>>

SpecSpaced == InitSpaced /\ [][CallParseSpaced]_vars

\* C29: parse_transaction_line takes the embedded date token with or
\* without one blank between the month abbreviation and the day: the line
\* 'DESC 12.34 NOV 05 ...' gives the same transaction (date, description,
\* amount) as 'DESC 12.34 NOV05 ...'.
C29_SpacedDateSameTransaction ==
    fpc = "done" =>
        /\ ret.tight # <<>>
        /\ ret.tight[1].transaction_date = <<2025, 11, 5>>
        /\ ret.spaced = ret.tight

\* ================== parsers/td.py: token dates against the header's range
\* a is b or an earlier date
DateLE(a, b) == a = b \/ DateLess(a, b)

\* The header range lies within one year, or crosses one year boundary with
\* the end month before the start month.
WithinOneYear == arg.start[1] = arg.end[1] /\ DateLE(arg.start, arg.end)

CrossesOneBoundary == arg.end[1] = arg.start[1] + 1 /\ arg.end[2] < arg.start[2]

\* The calendar dates with the token's month and day that lie inside the
\* header's range, both ends included.
DatesInRange ==
    LET d == IF arg.day = <<"3", "1">> THEN 31 ELSE 5
    IN  {<<y, arg.month, d>> : y \in {z \in {arg.start[1], arg.end[1]} :
                                         /\ ValidDate(z, arg.month, d)
                                         /\ DateLE(arg.start, <<z, arg.month, d>>)
                                         /\ DateLE(<<z, arg.month, d>>, arg.end)}}

\* C30: for every header range that lies within one year, or crosses one
\* year boundary with end month less than start month, a token whose month
\* and day fall inside the range resolves to a date from the header's start
\* date to its end date inclusive; under a DEC-JAN header December tokens
\* get the start year and January tokens the end year.
C30_DatesWithinHeaderRange ==
    fpc = "done" =>
        /\ (WithinOneYear \/ CrossesOneBoundary) /\ DatesInRange # {} =>
              /\ ret.date # <<>>
              /\ ret.date[1] \in DatesInRange
              /\ DateLE(arg.start, ret.date[1]) /\ DateLE(ret.date[1], arg.end)
        /\ CrossesOneBoundary /\ arg.start[2] = 12 /\ arg.end[2] = 1 =>
              /\ arg.month = 12 => ret.year = arg.start[1]
              /\ arg.month = 1 => ret.year = arg.end[1]

\* Under a header from 31 December 2025 to 28 January 2026 the token DEC 31
\* has been resolved to the start date itself.
C30_Witness ==
    /\ fpc = "done"
    /\ arg.token = <<"D", "E", "C", " ", "3", "1">>
    /\ arg.start = <<2025, 12, 31>> /\ arg.end = <<2026, 1, 28>>
    /\ ret.date = <<<<2025, 12, 31>>>>

====
